---------------------------- MODULE Spec2Model ----------------------------
(***************************************************************************)
(* State-machine model of the MT5 tick receivers.                          *)
(*                                                                         *)
(*   python/high_performance_receiver.py  HighPerformanceTickReceiver      *)
(*   python/backup_receiver.py            MT5TickSubscriber                *)
(*                                                                         *)
(* Conventions                                                             *)
(*   - an optional value (a JSON key that may be missing, a Python None)   *)
(*     is a sequence of length 0 or 1: None == << >>, Some(v) == <<v>>;    *)
(*   - a symbol is the tuple of its characters so that str.endswith can    *)
(*     be computed;                                                        *)
(*   - a price is the integer number of 0.00001 units written in the JSON  *)
(*     payload (1.10010 is 110010); the float64 value Python parses from   *)
(*     that decimal is modelled by its rounding error, see DoubleErr;      *)
(*   - a time is an integer number of epoch seconds;                       *)
(*   - a Python dict is a function whose DOMAIN is the set of its keys.    *)
(***************************************************************************)
EXTENDS Integers, Sequences, FiniteSets, TLC

VARIABLES
    running,            \* self.running
    queue_size,         \* maxsize of self.message_queue
    enable_confirmations, \* self.enable_confirmations
    requester,          \* the REQ socket: "ready", or "awaiting" a reply to a request sent
    refused,            \* history: a send_string call has raised because the REQ
                        \*          socket still awaited the reply to an earlier request
    st_pc,              \* stats thread: position
    last_report_time,   \* self.last_report_time, in seconds
    report_base,        \* history: receive_count and process_count at the last report
                        \*          made with elapsed > 0
    pub_seq_nums,       \* TickPublisher.seq_nums {symbol: next sequence number}
    message_queue,      \* self.message_queue, head first
    receive_count,      \* self.receive_count
    process_count,      \* self.process_count
    missed_messages,    \* self.missed_messages
    seq_nums,           \* self.seq_nums           {symbol: last sequence number}
    prev_bids,          \* self.prev_bids          {symbol: previous bid}
    minute_start_time,  \* self.minute_start_time  None or the open minute
    gap_counts,         \* self.gap_counts         {symbol: bucket}
    db_conn,            \* self.db_conn: "open", "none" (init failed) or "closed"
    tick_gaps,          \* table tick_gaps, a set of rows
    sequence_gaps,      \* table sequence_gaps, a set of rows
    now,                \* int(time.time()), the wall clock in seconds
    gap_events,         \* the gap reports _check_sequence has printed, in order
    sockets,            \* "open" or "closed": subscriber/requester/context
    r_pc, r_msg,        \* receiver thread: position, frame in hand
    p_pc, p_msg,        \* processor thread: position, frame in hand
    s_pc,               \* the thread that executes stop()
    dequeued,           \* history: the number of frames taken from the queue
    handed,             \* history: arrival numbers of the frames given to _process_tick
    dropped,            \* history: the frames dropped on queue.Full, in order
    seq_log,            \* history: the <<symbol, seq_num>> given to _check_sequence
    gap_saves,          \* history: how the INSERT of each GapEvent ended, in order
    last_save,          \* history: how the last _save_gap_counts call ended
    flushed,            \* history: the rows of each committed _save_gap_counts, in order
    accessed,           \* history: the threads that have read or written seq_nums,
                        \*          prev_bids, gap_counts or minute_start_time
    last_gap,           \* history: the last pip classification made
    window_ticks,       \* history: {symbol: the ticks with time and a numeric bid, met
                        \*          with a previous bid, since the open window began}
    classified,         \* history: {<<minute, symbol>>: the classifications made of
                        \*          the symbol's ticks of that minute, large and small}
    tick_data,          \* MT5TickSubscriber.tick_data     {symbol: latest tick}
    tick_history,       \* MT5TickSubscriber.tick_history  {symbol: list of ticks}
    sub_log             \* history: the frames the simple subscriber has received, in order

vars == << running, queue_size, enable_confirmations, requester, refused, st_pc,
           last_report_time, report_base, dequeued,
           pub_seq_nums, flushed, accessed, message_queue, receive_count, process_count,
           missed_messages, seq_nums, prev_bids, minute_start_time, gap_counts,
           db_conn, tick_gaps, sequence_gaps, now, gap_events, sockets,
           r_pc, r_msg, p_pc, p_msg, s_pc, handed, dropped,
           seq_log, gap_saves, last_save, last_gap, window_ticks, classified,
           tick_data, tick_history, sub_log >>

seqVars == << seq_nums, missed_messages, gap_events, sequence_gaps, seq_log, gap_saves >>
aggVars == << prev_bids, minute_start_time, gap_counts, tick_gaps, last_save, last_gap, window_ticks,
             classified,
             flushed >>
confVars == << queue_size, enable_confirmations >>

subVars == << tick_data, tick_history, sub_log >>
sideVars == << requester, refused, st_pc, pub_seq_nums, last_report_time, report_base, dequeued >>

---------------------------------------------------------------------------
(* Bounds of the model *)

MaxFrames    == 3   \* frames the publisher sends to the pipeline
MaxTicks     == 3   \* ticks fed to the processor directly
MaxSeq       == 5   \* sequence numbers range over 1..MaxSeq
MaxQueueSize == 2   \* queue_size ranges over 1..MaxQueueSize
MaxNow       == 2   \* the wall clock ranges over 0..MaxNow
MaxReplay    == 4   \* ticks of a stream that repeats sequence numbers
MaxPublished == 4   \* ticks the numbering publisher sends
MaxOrdered   == 4   \* ticks of a stream whose minutes never go back
MaxSubFrames == 4   \* frames the simple subscriber receives
max_history  == 2   \* self.max_history of MT5TickSubscriber (1000 in the source)

---------------------------------------------------------------------------
(* Values *)

None     == << >>
Some(v)  == << v >>
EmptyMap == [k \in {} |-> 0]

MapPut(f, k, v) == [x \in (DOMAIN f) \cup {k} |-> IF x = k THEN v ELSE f[x]]

EURUSD == << "E", "U", "R", "U", "S", "D" >>
USDJPY == << "U", "S", "D", "J", "P", "Y" >>

endswith(s, suffix) ==
    /\ Len(s) >= Len(suffix)
    /\ SubSeq(s, Len(s) - Len(suffix) + 1, Len(s)) = suffix

Abs(x) == IF x < 0 THEN -x ELSE x

\* a JSON value of "bid" that is not a number (a string); prices are positive
NonNumeric == -1

IsNumber(v) == v # NonNumeric

RECURSIVE Pow2(_)
Pow2(n) == IF n = 0 THEN 1 ELSE 2 * Pow2(n - 1)

RECURSIVE Pow10(_)
Pow10(n) == IF n = 0 THEN 1 ELSE 10 * Pow10(n - 1)

---------------------------------------------------------------------------
(* IEEE-754 double arithmetic of the pip computation, in integers.         *)
(*                                                                         *)
(* json.loads turns the decimal k / 10^5 into the nearest double.  For a   *)
(* value in [2^E, 2^(E+1)) that double is M * 2^(E-52) with M the integer  *)
(* nearest to k * 2^(52-E) / 10^5, i.e.                                    *)
(*      double(k) = (k * 2^(52-E) + DoubleErr(k)) / 10^5 * 2^(E-52).       *)
(* The literal 10^-a (0.01, 0.0001) is the double (2^s + PipErr(a)) /      *)
(* 10^a * 2^-s with s = 52 + PipShift(a).  Two doubles of one binade       *)
(* subtract exactly, and the quotient d / p rounds to a double >= 1.0      *)
(* exactly when d >= p, which in the integers above is GapAtLeastOnePip.   *)

\* (x * 2^n) % m without leaving 32 bits, for m <= 10^5
RECURSIVE MulPow2Mod(_, _, _)
MulPow2Mod(x, n, m) ==
    IF n = 0 THEN x % m
    ELSE IF n >= 12 THEN MulPow2Mod((4096 * x) % m, n - 12, m)
    ELSE MulPow2Mod((2 * x) % m, n - 1, m)

RECURSIVE BinadeFrom(_, _)
BinadeFrom(k, e) == IF Pow2(e + 1) * 100000 <= k THEN BinadeFrom(k, e + 1) ELSE e

Binade(k) == BinadeFrom(k, 0)

DoubleErr(k) ==
    LET r == MulPow2Mod(k % 100000, 52 - Binade(k), 100000)
    IN  IF r < 50000 THEN -r ELSE 100000 - r

RECURSIVE PipShiftFrom(_, _)
PipShiftFrom(a, t) == IF Pow2(t) >= Pow10(a) THEN t ELSE PipShiftFrom(a, t + 1)

PipShift(a) == PipShiftFrom(a, 0)

PipErr(a) ==
    LET m == Pow10(a)
        r == MulPow2Mod(1, 52 + PipShift(a), m)
    IN  IF 2 * r < m THEN -r ELSE m - r

PipUnits(a) == Pow10(5 - a)

---------------------------------------------------------------------------
(* Pip size and gap classification *)

\* faulty variant: every symbol has the pip 0.0001
get_pip_size_always_four(symbol) == 4

\* _get_pip_size: the pip is 10^-a; the operator gives a (2 for 0.01, 4 for 0.0001)
get_pip_size(symbol) == IF endswith(symbol, << "J", "P", "Y" >>) THEN 2 ELSE 4

\* gap_pips = abs(current_bid - prev_bid) / pip_size;  gap_pips >= 1.0
GapAtLeastOnePip(current_bid, prev_bid, a) ==
    LET hi == IF current_bid >= prev_bid THEN current_bid ELSE prev_bid
        lo == IF current_bid >= prev_bid THEN prev_bid ELSE current_bid
        D  == hi - lo
    IN  \/ D > PipUnits(a)
        \/ /\ D = PipUnits(a)
           /\ (DoubleErr(hi) - DoubleErr(lo)) * Pow2(PipShift(a) + Binade(hi))
                  >= PipErr(a) * PipUnits(a)

\* the bucket of `symbol` after one classification
Classify(bucket, symbol, current_bid, prev_bid) ==
    IF GapAtLeastOnePip(current_bid, prev_bid, get_pip_size(symbol))
    THEN [bucket EXCEPT !.large = @ + 1]
    ELSE [bucket EXCEPT !.small = @ + 1]

NewBucket == [large |-> 0, small |-> 0, written |-> FALSE]

---------------------------------------------------------------------------
(* Sequence Gap Detector *)

GapEvent(symbol, gap_size, expected_seq, seq_num) ==
    [symbol |-> symbol, gap_size |-> gap_size,
     expected_seq |-> expected_seq, received_seq |-> seq_num]

\* how the INSERT INTO sequence_gaps ends: it is not made without a connection,
\* it raises sqlite3.Error (always on a closed connection, and sqlite3.IntegrityError
\* when the primary key is already stored), or it commits
InsertOutcome(db_ok, conflict) ==
    IF db_conn = "none" THEN "skipped"
    ELSE IF db_conn = "closed" \/ ~db_ok THEN "error"
    ELSE IF conflict THEN "conflict"
    ELSE "stored"

\* faulty variant: a single missing number is not a gap
SeqGapOfTwo(symbol, seq_num) ==
    /\ symbol \in DOMAIN seq_nums
    /\ seq_num > seq_nums[symbol] + 2

\* faulty variant: every number other than the expected one is a gap
SeqGapAnyChange(symbol, seq_num) ==
    /\ symbol \in DOMAIN seq_nums
    /\ seq_num # seq_nums[symbol] + 1

\* whether `symbol in self.seq_nums` and `seq_num > expected_seq`
SeqGap(symbol, seq_num) ==
    /\ symbol \in DOMAIN seq_nums
    /\ seq_num > seq_nums[symbol] + 1

\* faulty variant: every gap counts as one missed message
check_sequence_counts_one(symbol, seq_num, db_ok) ==
    LET expected_seq == seq_nums[symbol] + 1
        gap_size     == seq_num - expected_seq
        conflict     == \E r \in sequence_gaps :
                            /\ r.timestamp = now
                            /\ r.symbol = symbol
                            /\ r.expected_seq = expected_seq
        row          == [timestamp |-> now, symbol |-> symbol, gap_size |-> gap_size,
                         expected_seq |-> expected_seq, received_seq |-> seq_num]
    IN  /\ IF SeqGap(symbol, seq_num)
           THEN /\ missed_messages' = missed_messages + 1
                /\ gap_events' = Append(gap_events,
                                        GapEvent(symbol, gap_size, expected_seq, seq_num))
                /\ sequence_gaps' = IF db_conn = "open" /\ db_ok /\ ~conflict
                                    THEN sequence_gaps \cup {row}
                                    ELSE sequence_gaps
                /\ gap_saves' = Append(gap_saves, InsertOutcome(db_ok, conflict))
           ELSE UNCHANGED << missed_messages, gap_events, sequence_gaps, gap_saves >>
        /\ seq_nums' = MapPut(seq_nums, symbol, seq_num)
        /\ seq_log' = Append(seq_log, << symbol, seq_num >>)

\* faulty variant: the expected number is the last one seen, not its successor
check_sequence_expects_last(symbol, seq_num, db_ok) ==
    LET expected_seq == seq_nums[symbol]
        gap_size     == seq_num - expected_seq
        conflict     == \E r \in sequence_gaps :
                            /\ r.timestamp = now
                            /\ r.symbol = symbol
                            /\ r.expected_seq = expected_seq
        row          == [timestamp |-> now, symbol |-> symbol, gap_size |-> gap_size,
                         expected_seq |-> expected_seq, received_seq |-> seq_num]
    IN  /\ IF symbol \in DOMAIN seq_nums /\ seq_num > expected_seq
           THEN /\ missed_messages' = missed_messages + gap_size
                /\ gap_events' = Append(gap_events,
                                        GapEvent(symbol, gap_size, expected_seq, seq_num))
                /\ sequence_gaps' = IF db_conn = "open" /\ db_ok /\ ~conflict
                                    THEN sequence_gaps \cup {row}
                                    ELSE sequence_gaps
                /\ gap_saves' = Append(gap_saves, InsertOutcome(db_ok, conflict))
           ELSE UNCHANGED << missed_messages, gap_events, sequence_gaps, gap_saves >>
        /\ seq_nums' = MapPut(seq_nums, symbol, seq_num)
        /\ seq_log' = Append(seq_log, << symbol, seq_num >>)

\* faulty variant: a symbol not seen before counts as seen with number 0
check_sequence_first_from_zero(symbol, seq_num, db_ok) ==
    LET expected_seq == (IF symbol \in DOMAIN seq_nums THEN seq_nums[symbol] ELSE 0) + 1
        gap_size     == seq_num - expected_seq
        conflict     == \E r \in sequence_gaps :
                            /\ r.timestamp = now
                            /\ r.symbol = symbol
                            /\ r.expected_seq = expected_seq
        row          == [timestamp |-> now, symbol |-> symbol, gap_size |-> gap_size,
                         expected_seq |-> expected_seq, received_seq |-> seq_num]
    IN  /\ IF seq_num > expected_seq
           THEN /\ missed_messages' = missed_messages + gap_size
                /\ gap_events' = Append(gap_events,
                                        GapEvent(symbol, gap_size, expected_seq, seq_num))
                /\ sequence_gaps' = IF db_conn = "open" /\ db_ok /\ ~conflict
                                    THEN sequence_gaps \cup {row}
                                    ELSE sequence_gaps
                /\ gap_saves' = Append(gap_saves, InsertOutcome(db_ok, conflict))
           ELSE UNCHANGED << missed_messages, gap_events, sequence_gaps, gap_saves >>
        /\ seq_nums' = MapPut(seq_nums, symbol, seq_num)
        /\ seq_log' = Append(seq_log, << symbol, seq_num >>)

\* faulty variant: the last-seen value is the highest number seen
check_sequence_high_water(symbol, seq_num, db_ok) ==
    LET expected_seq == seq_nums[symbol] + 1
        gap_size     == seq_num - expected_seq
        conflict     == \E r \in sequence_gaps :
                            /\ r.timestamp = now
                            /\ r.symbol = symbol
                            /\ r.expected_seq = expected_seq
        row          == [timestamp |-> now, symbol |-> symbol, gap_size |-> gap_size,
                         expected_seq |-> expected_seq, received_seq |-> seq_num]
    IN  /\ IF SeqGap(symbol, seq_num)
           THEN /\ missed_messages' = missed_messages + gap_size
                /\ gap_events' = Append(gap_events,
                                        GapEvent(symbol, gap_size, expected_seq, seq_num))
                /\ sequence_gaps' = IF db_conn = "open" /\ db_ok /\ ~conflict
                                    THEN sequence_gaps \cup {row}
                                    ELSE sequence_gaps
                /\ gap_saves' = Append(gap_saves, InsertOutcome(db_ok, conflict))
           ELSE UNCHANGED << missed_messages, gap_events, sequence_gaps, gap_saves >>
        /\ seq_nums' = MapPut(seq_nums, symbol,
                              IF symbol \in DOMAIN seq_nums /\ seq_nums[symbol] > seq_num
                              THEN seq_nums[symbol]
                              ELSE seq_num)
        /\ seq_log' = Append(seq_log, << symbol, seq_num >>)

\* _check_sequence(symbol, seq_num); db_ok: the INSERT raises no sqlite3.Error
\* other than the primary-key conflict, which is computed
check_sequence(symbol, seq_num, db_ok) ==
    LET expected_seq == seq_nums[symbol] + 1
        gap_size     == seq_num - expected_seq
        conflict     == \E r \in sequence_gaps :
                            /\ r.timestamp = now
                            /\ r.symbol = symbol
                            /\ r.expected_seq = expected_seq
        row          == [timestamp |-> now, symbol |-> symbol, gap_size |-> gap_size,
                         expected_seq |-> expected_seq, received_seq |-> seq_num]
    IN  /\ IF SeqGap(symbol, seq_num)
           THEN /\ missed_messages' = missed_messages + gap_size
                /\ gap_events' = Append(gap_events,
                                        GapEvent(symbol, gap_size, expected_seq, seq_num))
                /\ sequence_gaps' = IF db_conn = "open" /\ db_ok /\ ~conflict
                                    THEN sequence_gaps \cup {row}
                                    ELSE sequence_gaps
                /\ gap_saves' = Append(gap_saves, InsertOutcome(db_ok, conflict))
           ELSE UNCHANGED << missed_messages, gap_events, sequence_gaps, gap_saves >>
        /\ seq_nums' = MapPut(seq_nums, symbol, seq_num)
        /\ seq_log' = Append(seq_log, << symbol, seq_num >>)

---------------------------------------------------------------------------
(* Minute Aggregator *)

\* tick_time.replace(second=0, microsecond=0), as epoch seconds
TruncMinute(t) == t - (t % 60)

\* _save_gap_counts gets as far as its INSERT OR REPLACE statements
SaveWrites(db_ok) == db_conn = "open" /\ minute_start_time # None /\ db_ok

\* the row _save_gap_counts writes for one symbol of the window
\* (the column `minute` is the text of `timestamp` and is left out)
GapRow(timestamp, symbol, bucket) ==
    [timestamp |-> timestamp, symbol |-> symbol,
     large_gap_count |-> bucket.large, small_gap_count |-> bucket.small]

\* PRIMARY KEY (timestamp, symbol)
SameKey(r1, r2) == r1.timestamp = r2.timestamp /\ r1.symbol = r2.symbol

\* the rows of one _save_gap_counts call
SaveRows ==
    {GapRow(minute_start_time[1], symbol, gap_counts[symbol]) : symbol \in DOMAIN gap_counts}

\* faulty variant: the rows are added and the stored ones stay
plain_insert(table, rows) == table \cup rows

\* INSERT OR REPLACE of rows with pairwise different keys: the stored rows of
\* the same keys are deleted
insert_or_replace(table, rows) ==
    {r \in table : \A n \in rows : ~SameKey(r, n)} \cup rows

\* _save_gap_counts: the table tick_gaps afterwards
save_gap_counts(db_ok) ==
    IF SaveWrites(db_ok) THEN insert_or_replace(tick_gaps, SaveRows) ELSE tick_gaps

\* the committed saves afterwards
save_log(db_ok) ==
    IF SaveWrites(db_ok) THEN Append(flushed, SaveRows) ELSE flushed

\* how _save_gap_counts ends: it returns at once without a connection or an
\* open minute, it raises and reports sqlite3.Error (always on a closed
\* connection), or it commits
SaveOutcome(db_ok) ==
    IF db_conn = "none" \/ minute_start_time = None THEN "skipped"
    ELSE IF SaveWrites(db_ok) THEN "saved"
    ELSE "error"

\* the buckets of self.gap_counts after _save_gap_counts, marked as written
MarkWritten(db_ok) ==
    IF SaveWrites(db_ok)
    THEN [symbol \in DOMAIN gap_counts |-> [gap_counts[symbol] EXCEPT !.written = TRUE]]
    ELSE gap_counts

\* what the open window has been given since it began: a tick with time and bid
\* enters its symbol, and counts when its bid is a number and the symbol has a
\* previous bid
count_window_tick(symbol, current_bid, current_minute) ==
    LET base == IF minute_start_time = None \/ current_minute # minute_start_time[1]
                THEN EmptyMap
                ELSE window_ticks
        old  == IF symbol \in DOMAIN base THEN base[symbol] ELSE 0
    IN  MapPut(base, symbol,
               old + (IF symbol \in DOMAIN prev_bids /\ IsNumber(current_bid)
                      THEN 1 ELSE 0))

\* the classifications made so far, by minute and symbol, with this one added
count_classified(symbol, current_bid, current_minute) ==
    LET key == << current_minute, symbol >>
        old == IF key \in DOMAIN classified
               THEN classified[key]
               ELSE [large |-> 0, small |-> 0]
    IN  MapPut(classified, key, Classify(old, symbol, current_bid, prev_bids[symbol]))

\* faulty variant: the buckets of the old minute stay in the window at a rollover
aggregate_tick_keeps_window(symbol, current_bid, time, db_ok) ==
    LET raises == /\ time # None
                  /\ symbol \in DOMAIN prev_bids
                  /\ ~(IsNumber(current_bid) /\ IsNumber(prev_bids[symbol]))
    IN  /\ IF time # None
           THEN LET current_minute == TruncMinute(time[1])
                    new_minute == /\ minute_start_time # None
                                  /\ current_minute # minute_start_time[1]
                    counts1 == gap_counts
                    counts2 == IF symbol \notin DOMAIN counts1
                               THEN MapPut(counts1, symbol, NewBucket)
                               ELSE counts1
                    classifies == symbol \in DOMAIN prev_bids /\ ~raises
                    counts3 == IF classifies
                               THEN MapPut(counts2, symbol,
                                           Classify(counts2[symbol], symbol,
                                                    current_bid, prev_bids[symbol]))
                               ELSE counts2
                IN  /\ tick_gaps' = IF new_minute THEN save_gap_counts(db_ok) ELSE tick_gaps
                    /\ flushed' = IF new_minute THEN save_log(db_ok) ELSE flushed
                    /\ last_save' = IF new_minute THEN SaveOutcome(db_ok) ELSE last_save
                    /\ minute_start_time' = Some(current_minute)
                    /\ window_ticks' = count_window_tick(symbol, current_bid, current_minute)
                    /\ classified' = IF classifies
                                     THEN count_classified(symbol, current_bid, current_minute)
                                     ELSE classified
                    /\ gap_counts' = counts3
                    /\ last_gap' = IF classifies
                                   THEN Some([symbol |-> symbol,
                                              prev_bid |-> prev_bids[symbol],
                                              current_bid |-> current_bid,
                                              large |-> counts3[symbol].large
                                                          > counts2[symbol].large])
                                   ELSE last_gap
           ELSE UNCHANGED << tick_gaps, flushed, last_save, minute_start_time,
                             gap_counts, last_gap, window_ticks, classified >>
        /\ prev_bids' = IF raises THEN prev_bids ELSE MapPut(prev_bids, symbol, current_bid)

\* faulty variant: a tick without time gets its bucket in the window all the same
aggregate_tick_buckets_without_time(symbol, current_bid, time, db_ok) ==
    LET raises == /\ time # None
                  /\ symbol \in DOMAIN prev_bids
                  /\ ~(IsNumber(current_bid) /\ IsNumber(prev_bids[symbol]))
    IN  /\ IF time # None
           THEN LET current_minute == TruncMinute(time[1])
                    new_minute == /\ minute_start_time # None
                                  /\ current_minute # minute_start_time[1]
                    counts1 == IF new_minute THEN EmptyMap ELSE gap_counts
                    counts2 == IF symbol \notin DOMAIN counts1
                               THEN MapPut(counts1, symbol, NewBucket)
                               ELSE counts1
                    classifies == symbol \in DOMAIN prev_bids /\ ~raises
                    counts3 == IF classifies
                               THEN MapPut(counts2, symbol,
                                           Classify(counts2[symbol], symbol,
                                                    current_bid, prev_bids[symbol]))
                               ELSE counts2
                IN  /\ tick_gaps' = IF new_minute THEN save_gap_counts(db_ok) ELSE tick_gaps
                    /\ flushed' = IF new_minute THEN save_log(db_ok) ELSE flushed
                    /\ last_save' = IF new_minute THEN SaveOutcome(db_ok) ELSE last_save
                    /\ minute_start_time' = Some(current_minute)
                    /\ window_ticks' = count_window_tick(symbol, current_bid, current_minute)
                    /\ classified' = IF classifies
                                     THEN count_classified(symbol, current_bid, current_minute)
                                     ELSE classified
                    /\ gap_counts' = counts3
                    /\ last_gap' = IF classifies
                                   THEN Some([symbol |-> symbol,
                                              prev_bid |-> prev_bids[symbol],
                                              current_bid |-> current_bid,
                                              large |-> counts3[symbol].large
                                                          > counts2[symbol].large])
                                   ELSE last_gap
           ELSE /\ gap_counts' = IF symbol \notin DOMAIN gap_counts
                                  THEN MapPut(gap_counts, symbol, NewBucket)
                                  ELSE gap_counts
                /\ UNCHANGED << tick_gaps, flushed, last_save, minute_start_time,
                                last_gap, window_ticks, classified >>
        /\ prev_bids' = IF raises THEN prev_bids ELSE MapPut(prev_bids, symbol, current_bid)

\* faulty variant: the buckets of a window whose save has failed are kept
aggregate_tick_keeps_failed_window(symbol, current_bid, time, db_ok) ==
    LET raises == /\ time # None
                  /\ symbol \in DOMAIN prev_bids
                  /\ ~(IsNumber(current_bid) /\ IsNumber(prev_bids[symbol]))
    IN  /\ IF time # None
           THEN LET current_minute == TruncMinute(time[1])
                    new_minute == /\ minute_start_time # None
                                  /\ current_minute # minute_start_time[1]
                    counts1 == IF new_minute /\ SaveOutcome(db_ok) = "saved"
                               THEN EmptyMap
                               ELSE gap_counts
                    counts2 == IF symbol \notin DOMAIN counts1
                               THEN MapPut(counts1, symbol, NewBucket)
                               ELSE counts1
                    classifies == symbol \in DOMAIN prev_bids /\ ~raises
                    counts3 == IF classifies
                               THEN MapPut(counts2, symbol,
                                           Classify(counts2[symbol], symbol,
                                                    current_bid, prev_bids[symbol]))
                               ELSE counts2
                IN  /\ tick_gaps' = IF new_minute THEN save_gap_counts(db_ok) ELSE tick_gaps
                    /\ flushed' = IF new_minute THEN save_log(db_ok) ELSE flushed
                    /\ last_save' = IF new_minute THEN SaveOutcome(db_ok) ELSE last_save
                    /\ minute_start_time' = Some(current_minute)
                    /\ window_ticks' = count_window_tick(symbol, current_bid, current_minute)
                    /\ classified' = IF classifies
                                     THEN count_classified(symbol, current_bid, current_minute)
                                     ELSE classified
                    /\ gap_counts' = counts3
                    /\ last_gap' = IF classifies
                                   THEN Some([symbol |-> symbol,
                                              prev_bid |-> prev_bids[symbol],
                                              current_bid |-> current_bid,
                                              large |-> counts3[symbol].large
                                                          > counts2[symbol].large])
                                   ELSE last_gap
           ELSE UNCHANGED << tick_gaps, flushed, last_save, minute_start_time,
                             gap_counts, last_gap, window_ticks, classified >>
        /\ prev_bids' = IF raises THEN prev_bids ELSE MapPut(prev_bids, symbol, current_bid)

\* _process_tick from `current_bid = tick_data.get("bid")` on, current_bid not None;
\* abs(current_bid - prev_bid) raises TypeError when one of them is not a number,
\* which ends _process_tick in its `except Exception`
aggregate_tick(symbol, current_bid, time, db_ok) ==
    LET raises == /\ time # None
                  /\ symbol \in DOMAIN prev_bids
                  /\ ~(IsNumber(current_bid) /\ IsNumber(prev_bids[symbol]))
    IN  /\ IF time # None
           THEN LET current_minute == TruncMinute(time[1])
                    new_minute == /\ minute_start_time # None
                                  /\ current_minute # minute_start_time[1]
                    counts1 == IF new_minute THEN EmptyMap ELSE gap_counts
                    counts2 == IF symbol \notin DOMAIN counts1
                               THEN MapPut(counts1, symbol, NewBucket)
                               ELSE counts1
                    classifies == symbol \in DOMAIN prev_bids /\ ~raises
                    counts3 == IF classifies
                               THEN MapPut(counts2, symbol,
                                           Classify(counts2[symbol], symbol,
                                                    current_bid, prev_bids[symbol]))
                               ELSE counts2
                IN  /\ tick_gaps' = IF new_minute THEN save_gap_counts(db_ok) ELSE tick_gaps
                    /\ flushed' = IF new_minute THEN save_log(db_ok) ELSE flushed
                    /\ last_save' = IF new_minute THEN SaveOutcome(db_ok) ELSE last_save
                    /\ minute_start_time' = Some(current_minute)
                    /\ window_ticks' = count_window_tick(symbol, current_bid, current_minute)
                    /\ classified' = IF classifies
                                     THEN count_classified(symbol, current_bid, current_minute)
                                     ELSE classified
                    /\ gap_counts' = counts3
                    /\ last_gap' = IF classifies
                                   THEN Some([symbol |-> symbol,
                                              prev_bid |-> prev_bids[symbol],
                                              current_bid |-> current_bid,
                                              large |-> counts3[symbol].large
                                                          > counts2[symbol].large])
                                   ELSE last_gap
           ELSE UNCHANGED << tick_gaps, flushed, last_save, minute_start_time,
                             gap_counts, last_gap, window_ticks, classified >>
        /\ prev_bids' = IF raises THEN prev_bids ELSE MapPut(prev_bids, symbol, current_bid)

\* faulty variant: the fields of a payload that does not parse are used
process_tick_reads_unparsed(symbol, payload) ==
    IF FALSE
    THEN UNCHANGED << seqVars, aggVars >>
    ELSE /\ IF payload.seq_num # None
            THEN \E db_ok \in BOOLEAN : check_sequence(symbol, payload.seq_num[1], db_ok)
            ELSE UNCHANGED seqVars
         /\ IF payload.bid # None
            THEN \E db_ok \in BOOLEAN :
                     aggregate_tick(symbol, payload.bid[1], payload.time, db_ok)
            ELSE UNCHANGED aggVars

\* _process_tick(symbol, payload)
process_tick(symbol, payload) ==
    IF ~payload.json
    THEN UNCHANGED << seqVars, aggVars >>
    ELSE /\ IF payload.seq_num # None
            THEN \E db_ok \in BOOLEAN : check_sequence(symbol, payload.seq_num[1], db_ok)
            ELSE UNCHANGED seqVars
         /\ IF payload.bid # None
            THEN \E db_ok \in BOOLEAN :
                     aggregate_tick(symbol, payload.bid[1], payload.time, db_ok)
            ELSE UNCHANGED aggVars

\* _process_tick reads or writes seq_nums, prev_bids, gap_counts or minute_start_time
touches_state(payload) ==
    payload.json /\ (payload.seq_num # None \/ payload.bid # None)

\* faulty variant: a frame of the wrong format counts as processed
process_message_counts_all(message) ==
    IF message.parts = 3
    THEN /\ process_tick(message.symbol, message.payload)
         /\ process_count' = process_count + 1
         /\ handed' = Append(handed, message.n)
         /\ accessed' = IF touches_state(message.payload)
                        THEN accessed \cup {"processor"}
                        ELSE accessed
    ELSE /\ process_count' = process_count + 1
         /\ UNCHANGED << seqVars, aggVars, handed, accessed >>

\* the body of _process_loop for one dequeued message
process_message(message) ==
    IF message.parts = 3
    THEN /\ process_tick(message.symbol, message.payload)
         /\ process_count' = process_count + 1
         /\ handed' = Append(handed, message.n)
         /\ accessed' = IF touches_state(message.payload)
                        THEN accessed \cup {"processor"}
                        ELSE accessed
    ELSE UNCHANGED << seqVars, aggVars, process_count, handed, accessed >>

---------------------------------------------------------------------------
(* Frames on the wire: "TICK|<SYMBOL>|<json>" *)

\* a frame with `parts` '|'-separated parts; n is its arrival number
Frame(parts, symbol, json, seq_num, bid, time) ==
    [n |-> 0, parts |-> parts, symbol |-> symbol,
     payload |-> [json |-> json, seq_num |-> seq_num, bid |-> bid, time |-> time]]

Tick(symbol, seq_num, bid, time) == Frame(3, symbol, TRUE, seq_num, bid, time)

Arrived(frame, n) == [frame EXCEPT !.n = n]

Symbols == {EURUSD, USDJPY}

\* bids as written by the publisher, in units of 0.00001, one binade per symbol
Bids(symbol) ==
    IF symbol = USDJPY
    THEN {15000000, 15000500, 15002000}
    ELSE {110000, 110005, 110010, 110011}

\* 12:00:59, 12:01:00 and 12:01:01 of one day
Times == {43259, 43260, 43261}

Optional(S) == {None} \cup {Some(v) : v \in S}

\* ticks that differ in symbol and sequence number, with a bid and no time or
\* with a time and no bid
SeqTicks ==
    {Tick(symbol, seq_num, Some(110000), None) :
        symbol \in Symbols, seq_num \in Optional(1..MaxSeq)}
    \cup {Tick(symbol, seq_num, None, Some(43259)) :
        symbol \in Symbols, seq_num \in Optional(1..MaxSeq)}

\* ticks that differ in symbol, bid and time
AggTicks ==
    UNION {{Tick(symbol, None, bid, time) :
                bid \in Optional(Bids(symbol)), time \in Optional(Times)} :
           symbol \in Symbols}

\* ticks of one symbol whose bid is a number or a string
BidTicks ==
    {Tick(EURUSD, None, Some(bid), time) :
        bid \in {110000, 110011, NonNumeric}, time \in Optional({43259, 43260})}

\* ticks of one symbol whose numbers can repeat and go back (duplicate or
\* out-of-order delivery, a publisher that starts again)
ReplayTicks == {Tick(EURUSD, Some(seq_num), Some(110000), None) : seq_num \in 1..3}

\* ticks of two symbols with a bid, without time or in one of three minutes
\* (12:00:59, 12:01:00, 12:02:00)
OrderedTicks ==
    {Tick(symbol, None, Some(bid), time) :
        symbol \in Symbols, bid \in {110000, 110011},
        time \in Optional({43259, 43260, 43320})}

\* one tick and one frame of the wrong format
LiveFrames ==
    {Tick(EURUSD, None, Some(110000), Some(43259)),
     Frame(2, EURUSD, FALSE, None, None, None)}

\* the frames of the pipeline specification: ticks, a frame of the wrong format
\* and a frame whose payload is not JSON (the text of a tick cut off before its
\* closing brace: json is FALSE and the fields are what the text shows)
PipeFrames ==
    {Tick(EURUSD, None, Some(bid), Some(time)) :
        bid \in {110000, 110011}, time \in {43259, 43260}}
    \cup {Frame(2, EURUSD, FALSE, None, None, None),
          Frame(3, EURUSD, FALSE, Some(1), Some(110011), Some(43260))}

---------------------------------------------------------------------------
(* Initial state: after __init__, connect() and start() *)

Init ==
    /\ running = TRUE
    /\ queue_size \in 1..MaxQueueSize
    /\ message_queue = << >>
    /\ receive_count = 0
    /\ process_count = 0
    /\ missed_messages = 0
    /\ seq_nums = EmptyMap
    /\ prev_bids = EmptyMap
    /\ minute_start_time = None
    /\ gap_counts = EmptyMap
    /\ db_conn \in {"open", "none"}
    /\ tick_gaps = {}
    /\ sequence_gaps = {}
    /\ now = 0
    /\ gap_events = << >>
    /\ sockets = "open"
    /\ r_pc = "loop"
    /\ r_msg = None
    /\ p_pc = "loop"
    /\ p_msg = None
    /\ s_pc = "idle"
    /\ dequeued = 0
    /\ handed = << >>
    /\ dropped = << >>
    /\ seq_log = << >>
    /\ gap_saves = << >>
    /\ last_save = "none"
    /\ last_gap = None
    /\ window_ticks = EmptyMap
    /\ classified = EmptyMap
    /\ tick_data = EmptyMap
    /\ tick_history = EmptyMap
    /\ sub_log = << >>
    /\ enable_confirmations \in BOOLEAN
    /\ requester = "ready"
    /\ refused = FALSE
    /\ st_pc = "loop"
    /\ last_report_time = 0
    /\ report_base = [received |-> 0, processed |-> 0]
    /\ pub_seq_nums = [symbol \in Symbols |-> 0]
    /\ flushed = << >>
    /\ accessed = {}

---------------------------------------------------------------------------
(* Receiver thread: _receive_loop *)

ReceiverCheck ==
    /\ r_pc = "loop"
    /\ r_pc' = IF running THEN "poll" ELSE "done"
    /\ UNCHANGED << running, confVars, subVars, sideVars, message_queue, receive_count, process_count,
                    seqVars, aggVars, db_conn, now, sockets, r_msg, p_pc, p_msg,
                    s_pc, handed, accessed, dropped >>

\* the poll times out
ReceiverPollNothing ==
    /\ r_pc = "poll"
    /\ r_pc' = "loop"
    /\ UNCHANGED << running, confVars, subVars, sideVars, message_queue, receive_count, process_count,
                    seqVars, aggVars, db_conn, now, sockets, r_msg, p_pc, p_msg,
                    s_pc, handed, accessed, dropped >>

\* the poll or recv_string raises zmq.ZMQError (always possible, certain on a
\* closed socket): the error is printed
ReceiverPollError ==
    /\ r_pc = "poll"
    /\ r_pc' = "backoff"
    /\ UNCHANGED << running, confVars, subVars, sideVars, message_queue, receive_count, process_count,
                    seqVars, aggVars, db_conn, now, sockets, r_msg, p_pc, p_msg,
                    s_pc, handed, accessed, dropped >>

\* faulty variant: an error ends the receiver loop
ReceiverErrorEndsLoop ==
    /\ r_pc = "backoff"
    /\ r_pc' = "done"
    /\ UNCHANGED << running, confVars, subVars, sideVars, message_queue, receive_count, process_count,
                    seqVars, aggVars, db_conn, now, sockets, r_msg, p_pc, p_msg,
                    s_pc, handed, accessed, dropped >>

\* time.sleep(0.001) in the except clause
ReceiverBackoff ==
    /\ r_pc = "backoff"
    /\ r_pc' = "loop"
    /\ UNCHANGED << running, confVars, subVars, sideVars, message_queue, receive_count, process_count,
                    seqVars, aggVars, db_conn, now, sockets, r_msg, p_pc, p_msg,
                    s_pc, handed, accessed, dropped >>

ReceiverRecv(frames) ==
    /\ r_pc = "poll"
    /\ sockets = "open"
    /\ receive_count < MaxFrames
    /\ \E frame \in frames : r_msg' = Some(Arrived(frame, receive_count + 1))
    /\ receive_count' = receive_count + 1
    /\ r_pc' = IF enable_confirmations THEN "confirm" ELSE "put"
    /\ UNCHANGED << running, confVars, subVars, sideVars, message_queue, process_count,
                    seqVars, aggVars, db_conn, now, sockets, p_pc, p_msg,
                    s_pc, handed, accessed, dropped >>

\* faulty variant: the queue takes one message more than maxsize
queue_full_off_by_one(q, maxsize) == Len(q) > maxsize

\* TickPublisher._send_tick sends the next tick of a symbol, numbered by the
\* publisher, and the receiver receives it
ReceiverRecvPublished ==
    /\ r_pc = "poll"
    /\ sockets = "open"
    /\ receive_count < MaxPublished
    /\ \E symbol \in Symbols :
          /\ r_msg' = Some(Arrived(Tick(symbol, Some(pub_seq_nums[symbol]),
                                        Some(110000), Some(43259)),
                                   receive_count + 1))
          /\ pub_seq_nums' = [pub_seq_nums EXCEPT ![symbol] = @ + 1]
    /\ receive_count' = receive_count + 1
    /\ r_pc' = IF enable_confirmations THEN "confirm" ELSE "put"
    /\ UNCHANGED << refused, running, confVars, subVars, requester, st_pc, last_report_time, report_base, dequeued,
                    message_queue, process_count,
                    seqVars, aggVars, db_conn, now, sockets, p_pc, p_msg,
                    s_pc, handed, accessed, dropped >>

\* how the confirmation round trip can end: the reply arrives, send_string
\* raises zmq.ZMQError (no peer, closed socket, or a REQ socket that still
\* awaits the reply to an earlier request), or recv_string times out
ConfirmOutcomes ==
    IF requester = "awaiting" \/ sockets = "closed"
    THEN {"send_error"}
    ELSE {"confirmed", "send_error", "timeout"}

\* faulty variant: a frame whose confirmation fails is skipped
ReceiverConfirmOrSkip ==
    /\ r_pc = "confirm"
    /\ \E outcome \in ConfirmOutcomes :
          /\ requester' = IF outcome = "timeout" THEN "awaiting" ELSE requester
          /\ r_pc' = IF outcome = "confirmed" THEN "put" ELSE "loop"
          /\ r_msg' = IF outcome = "confirmed" THEN r_msg ELSE None
    /\ refused' = (refused \/ (requester = "awaiting" /\ sockets = "open"))
    /\ UNCHANGED << running, confVars, subVars, st_pc, pub_seq_nums, last_report_time, report_base, dequeued,
                    message_queue, receive_count,
                    process_count, seqVars, aggVars, db_conn, now, sockets, p_pc, p_msg,
                    s_pc, handed, accessed, dropped >>

\* requester.send_string("CONFIRM", zmq.NOBLOCK); requester.recv_string();
\* except zmq.ZMQError: pass
ReceiverConfirm ==
    /\ r_pc = "confirm"
    /\ \E outcome \in ConfirmOutcomes :
          requester' = IF outcome = "timeout" THEN "awaiting" ELSE requester
    /\ refused' = (refused \/ (requester = "awaiting" /\ sockets = "open"))
    /\ r_pc' = "put"
    /\ UNCHANGED << running, confVars, subVars, st_pc, pub_seq_nums, last_report_time, report_base, dequeued,
                    message_queue, receive_count,
                    process_count, seqVars, aggVars, db_conn, now, sockets, r_msg, p_pc, p_msg,
                    s_pc, handed, accessed, dropped >>

\* queue.Queue(maxsize): no free slot
queue_full(q, maxsize) == Len(q) >= maxsize

\* queue.Queue.put(message, timeout=0.1) finds a free slot
queue_put(q, message) == Append(q, message)

ReceiverPut ==
    /\ r_pc = "put"
    /\ ~queue_full(message_queue, queue_size)
    /\ message_queue' = queue_put(message_queue, r_msg[1])
    /\ r_msg' = None
    /\ r_pc' = "loop"
    /\ UNCHANGED << running, confVars, subVars, sideVars, receive_count, process_count,
                    seqVars, aggVars, db_conn, now, sockets, p_pc, p_msg,
                    s_pc, handed, accessed, dropped >>

\* faulty variant: put without a timeout waits for a free slot
ReceiverPutBlocks ==
    /\ r_pc = "put"
    /\ queue_full(message_queue, queue_size)
    /\ UNCHANGED vars

\* faulty variant: a dropped message is taken back from the receive count
ReceiverPutFullUncounts ==
    /\ r_pc = "put"
    /\ queue_full(message_queue, queue_size)
    /\ dropped' = Append(dropped, r_msg[1])
    /\ receive_count' = receive_count - 1
    /\ r_msg' = None
    /\ r_pc' = "loop"
    /\ UNCHANGED << running, confVars, subVars, sideVars, message_queue, process_count,
                    seqVars, aggVars, db_conn, now, sockets, p_pc, p_msg,
                    s_pc, handed, accessed >>

\* queue.Full after the timeout: the message is dropped
ReceiverPutFull ==
    /\ r_pc = "put"
    /\ queue_full(message_queue, queue_size)
    /\ dropped' = Append(dropped, r_msg[1])
    /\ r_msg' = None
    /\ r_pc' = "loop"
    /\ UNCHANGED << running, confVars, subVars, sideVars, message_queue, receive_count, process_count,
                    seqVars, aggVars, db_conn, now, sockets, p_pc, p_msg,
                    s_pc, handed, accessed >>

---------------------------------------------------------------------------
(* Processor thread: _process_loop *)

ProcessorCheck ==
    /\ p_pc = "loop"
    /\ p_pc' = IF running THEN "get" ELSE "done"
    /\ UNCHANGED << running, confVars, subVars, sideVars, message_queue, receive_count, process_count,
                    seqVars, aggVars, db_conn, now, sockets, r_pc, r_msg, p_msg,
                    s_pc, handed, accessed, dropped >>

\* faulty variant: the newest message is taken first
queue_get_lifo(q) == [message |-> q[Len(q)], rest |-> SubSeq(q, 1, Len(q) - 1)]

\* queue.Queue.get: the message taken and the queue left
queue_get(q) == [message |-> Head(q), rest |-> Tail(q)]

ProcessorGet ==
    /\ p_pc = "get"
    /\ message_queue # << >>
    /\ p_msg' = Some(queue_get(message_queue).message)
    /\ message_queue' = queue_get(message_queue).rest
    /\ p_pc' = "process"
    /\ dequeued' = dequeued + 1
    /\ UNCHANGED << refused, running, confVars, subVars, requester, st_pc, pub_seq_nums,
                    last_report_time, report_base, receive_count, process_count,
                    seqVars, aggVars, db_conn, now, sockets, r_pc, r_msg,
                    s_pc, handed, accessed, dropped >>

\* queue.Empty after the timeout
ProcessorGetEmpty ==
    /\ p_pc = "get"
    /\ message_queue = << >>
    /\ p_pc' = "loop"
    /\ UNCHANGED << running, confVars, subVars, sideVars, message_queue, receive_count, process_count,
                    seqVars, aggVars, db_conn, now, sockets, r_pc, r_msg, p_msg,
                    s_pc, handed, accessed, dropped >>

ProcessorProcess ==
    /\ p_pc = "process"
    /\ process_message(p_msg[1])
    /\ p_msg' = None
    /\ p_pc' = "loop"
    /\ UNCHANGED << running, confVars, subVars, sideVars, message_queue, receive_count,
                    db_conn, now, sockets, r_pc, r_msg, s_pc, dropped >>

---------------------------------------------------------------------------
(* Stats thread: _stats_loop *)

StatsCheck ==
    /\ st_pc = "loop"
    /\ st_pc' = IF running THEN "sleep" ELSE "done"
    /\ UNCHANGED << refused, running, confVars, subVars, requester, pub_seq_nums, last_report_time, report_base, dequeued,
                    message_queue, receive_count,
                    process_count, seqVars, aggVars, db_conn, now, sockets, r_pc, r_msg,
                    p_pc, p_msg, s_pc, handed, accessed, dropped >>

\* count / elapsed if elapsed > 0 else 0, as a fraction
stats_rate(count, elapsed) ==
    IF elapsed > 0 THEN [num |-> count, den |-> elapsed] ELSE [num |-> 0, den |-> 1]

\* elapsed = now - self.last_report_time
elapsed == now - last_report_time

\* the rates a report prints
receive_rate == stats_rate(receive_count, elapsed)

process_rate == stats_rate(process_count, elapsed)

\* faulty variant: the counters are set back after each report
StatsReportResets ==
    /\ st_pc = "sleep"
    /\ st_pc' = "loop"
    /\ last_report_time' = now
    /\ report_base' = IF now - last_report_time > 0
                      THEN [received |-> receive_count, processed |-> process_count]
                      ELSE report_base
    /\ process_count' = 0
    /\ UNCHANGED << refused, running, confVars, subVars, requester, pub_seq_nums, dequeued, message_queue,
                    receive_count,
                    seqVars, aggVars, db_conn, now, sockets, r_pc, r_msg,
                    p_pc, p_msg, s_pc, handed, accessed, dropped >>

\* time.sleep(1.0) returns; the counters and qsize() are read and printed, and
\* last_report_time is set
StatsReport ==
    /\ st_pc = "sleep"
    /\ st_pc' = "loop"
    /\ last_report_time' = now
    /\ report_base' = IF now - last_report_time > 0
                      THEN [received |-> receive_count, processed |-> process_count]
                      ELSE report_base
    /\ UNCHANGED << refused, running, confVars, subVars, requester, pub_seq_nums, dequeued, message_queue,
                    receive_count,
                    process_count, seqVars, aggVars, db_conn, now, sockets, r_pc, r_msg,
                    p_pc, p_msg, s_pc, handed, accessed, dropped >>

---------------------------------------------------------------------------
(* The thread that executes stop() *)

StopBegin ==
    /\ s_pc = "idle"
    /\ running' = FALSE
    /\ s_pc' = "join"
    /\ UNCHANGED << confVars, subVars, sideVars, message_queue, receive_count, process_count,
                    seqVars, aggVars, db_conn, now, sockets, r_pc, r_msg, p_pc, p_msg,
                    handed, accessed, dropped >>

\* Thread.join(timeout=1.0) three times: each returns when its thread has ended
\* or when the timeout has passed
StopJoin ==
    /\ s_pc = "join"
    /\ s_pc' = "save"
    /\ UNCHANGED << running, confVars, subVars, sideVars, message_queue, receive_count, process_count,
                    seqVars, aggVars, db_conn, now, sockets, r_pc, r_msg, p_pc, p_msg,
                    handed, accessed, dropped >>

StopSave ==
    /\ s_pc = "save"
    /\ IF minute_start_time # None
       THEN \E db_ok \in BOOLEAN :
                /\ tick_gaps' = save_gap_counts(db_ok)
                /\ flushed' = save_log(db_ok)
                /\ gap_counts' = MarkWritten(db_ok)
                /\ last_save' = SaveOutcome(db_ok)
       ELSE UNCHANGED << tick_gaps, flushed, gap_counts, last_save >>
    /\ accessed' = accessed \cup {"stop"}
    /\ s_pc' = "close_sockets"
    /\ UNCHANGED << running, confVars, subVars, sideVars, message_queue, receive_count, process_count,
                    seqVars, prev_bids, minute_start_time, last_gap, window_ticks, classified,
                    db_conn, now,
                    sockets, r_pc, r_msg, p_pc, p_msg, handed, dropped >>

StopCloseSockets ==
    /\ s_pc = "close_sockets"
    /\ sockets' = "closed"
    /\ s_pc' = "close_db"
    /\ UNCHANGED << running, confVars, subVars, sideVars, message_queue, receive_count, process_count,
                    seqVars, aggVars, db_conn, now, r_pc, r_msg, p_pc, p_msg,
                    handed, accessed, dropped >>

StopCloseDb ==
    /\ s_pc = "close_db"
    /\ db_conn' = IF db_conn = "open" THEN "closed" ELSE db_conn
    /\ s_pc' = "done"
    /\ UNCHANGED << running, confVars, subVars, sideVars, message_queue, receive_count, process_count,
                    seqVars, aggVars, now, sockets, r_pc, r_msg, p_pc, p_msg,
                    handed, accessed, dropped >>

---------------------------------------------------------------------------
(* The wall clock, and a processor that is handed the received frames      *)
(* directly (no queue in between)                                          *)

ClockTick ==
    /\ now < MaxNow
    /\ now' = now + 1
    /\ UNCHANGED << running, confVars, subVars, sideVars, message_queue, receive_count, process_count,
                    seqVars, aggVars, db_conn, sockets, r_pc, r_msg, p_pc, p_msg,
                    s_pc, handed, accessed, dropped >>

FeedTick(ticks) ==
    /\ p_pc = "loop"
    /\ receive_count < MaxTicks
    /\ \E tick \in ticks : p_msg' = Some(Arrived(tick, receive_count + 1))
    /\ receive_count' = receive_count + 1
    /\ p_pc' = "process"
    /\ dequeued' = dequeued + 1
    /\ UNCHANGED << refused, running, confVars, subVars, requester, st_pc, pub_seq_nums,
                    last_report_time, report_base, message_queue, process_count,
                    seqVars, aggVars, db_conn, now, sockets, r_pc, r_msg,
                    s_pc, handed, accessed, dropped >>

FeedReplayed ==
    /\ p_pc = "loop"
    /\ receive_count < MaxReplay
    /\ \E tick \in ReplayTicks : p_msg' = Some(Arrived(tick, receive_count + 1))
    /\ receive_count' = receive_count + 1
    /\ p_pc' = "process"
    /\ dequeued' = dequeued + 1
    /\ UNCHANGED << refused, running, confVars, subVars, requester, st_pc, pub_seq_nums,
                    last_report_time, report_base, message_queue, process_count,
                    seqVars, aggVars, db_conn, now, sockets, r_pc, r_msg,
                    s_pc, handed, accessed, dropped >>

\* the processor is handed the next tick of a stream in which the minute of a
\* timed tick is never before the minute of the timed tick before it (every
\* tick of the stream has a bid, so that minute is minute_start_time)
FeedOrdered ==
    /\ p_pc = "loop"
    /\ receive_count < MaxOrdered
    /\ \E tick \in OrderedTicks :
          /\ IF tick.payload.time = None \/ minute_start_time = None
             THEN TRUE
             ELSE TruncMinute(tick.payload.time[1]) >= minute_start_time[1]
          /\ p_msg' = Some(Arrived(tick, receive_count + 1))
    /\ receive_count' = receive_count + 1
    /\ p_pc' = "process"
    /\ dequeued' = dequeued + 1
    /\ UNCHANGED << refused, running, confVars, subVars, requester, st_pc, pub_seq_nums,
                    last_report_time, report_base, message_queue, process_count,
                    seqVars, aggVars, db_conn, now, sockets, r_pc, r_msg,
                    s_pc, handed, accessed, dropped >>

----------------------------------------------------------------------------
(* Simple subscriber: receive_ticks.MT5TickSubscriber *)

\* the frames the simple subscriber is sent: ticks with time, without time and
\* with a time that is not a number, a payload that is not JSON and a frame of
\* two parts
SubFrames ==
    {Tick(symbol, None, Some(bid), time) :
        symbol \in Symbols, bid \in {110000, 110011},
        time \in {None, Some(43259), Some(NonNumeric)}}
    \cup {Frame(3, EURUSD, FALSE, None, Some(110000), Some(43259)),
          Frame(2, EURUSD, FALSE, None, None, None)}

\* datetime.fromtimestamp(t), t in seconds of the day
fromtimestamp(t) == [hour |-> t \div 3600, minute |-> (t % 3600) \div 60, second |-> t % 60]

\* datetime.fromtimestamp raises TypeError for a "time" that is not a number
time_converts(payload) == payload.time = None \/ IsNumber(payload.time[1])

\* the dict _process_tick stores: the parsed payload with "datetime" added
\* when it has "time"
stored_tick(payload) ==
    [seq_num |-> payload.seq_num, bid |-> payload.bid, time |-> payload.time,
     datetime |-> IF payload.time = None THEN None
                  ELSE Some(fromtimestamp(payload.time[1]))]

\* faulty variant: the oldest max_history entries are kept
limit_history_keeps_oldest(history) ==
    IF Len(history) > max_history
    THEN SubSeq(history, 1, max_history)
    ELSE history

\* if len(history) > self.max_history: history = history[-self.max_history:]
limit_history(history) ==
    IF Len(history) > max_history
    THEN SubSeq(history, Len(history) - max_history + 1, Len(history))
    ELSE history

\* self.tick_history.get(symbol, [])
get_tick_history(symbol) ==
    IF symbol \in DOMAIN tick_history THEN tick_history[symbol] ELSE << >>

\* self.tick_data.get(symbol)
get_latest_tick(symbol) ==
    IF symbol \in DOMAIN tick_data THEN Some(tick_data[symbol]) ELSE None

\* MT5TickSubscriber._process_tick(symbol, payload): json.JSONDecodeError and the
\* TypeError of the time conversion end it before anything is stored
subscriber_process_tick(symbol, payload) ==
    IF ~payload.json \/ ~time_converts(payload)
    THEN UNCHANGED << tick_data, tick_history >>
    ELSE /\ tick_data' = MapPut(tick_data, symbol, stored_tick(payload))
         /\ tick_history' =
                MapPut(tick_history, symbol,
                       limit_history(Append(get_tick_history(symbol),
                                            stored_tick(payload))))

\* one pass of MT5TickSubscriber._receive_loop that receives a frame
SubscriberReceive ==
    /\ Len(sub_log) < MaxSubFrames
    /\ \E frame \in SubFrames :
          /\ sub_log' = Append(sub_log, frame)
          /\ IF frame.parts = 3
             THEN subscriber_process_tick(frame.symbol, frame.payload)
             ELSE UNCHANGED << tick_data, tick_history >>
    /\ UNCHANGED << running, confVars, sideVars, message_queue, receive_count,
                    process_count, seqVars, aggVars, db_conn, now, sockets,
                    r_pc, r_msg, p_pc, p_msg, s_pc, handed, accessed, dropped >>

---------------------------------------------------------------------------
(* backup_receiver.py, MT5TickSubscriber: one thread receives and processes;  *)
(* r_pc and r_msg are that thread, receive_count numbers the frames it has    *)
(* received                                                                   *)

BackupReceiverCheck ==
    /\ r_pc = "loop"
    /\ r_pc' = IF running THEN "poll" ELSE "done"
    /\ UNCHANGED << running, confVars, subVars, sideVars, message_queue, receive_count, process_count,
                    seqVars, aggVars, db_conn, now, sockets, r_msg, p_pc, p_msg,
                    s_pc, handed, accessed, dropped >>

\* the poll times out, or it raises zmq.ZMQError on a closed socket
BackupPollNothing ==
    /\ r_pc = "poll"
    /\ r_pc' = "loop"
    /\ UNCHANGED << running, confVars, subVars, sideVars, message_queue, receive_count, process_count,
                    seqVars, aggVars, db_conn, now, sockets, r_msg, p_pc, p_msg,
                    s_pc, handed, accessed, dropped >>

BackupRecv(frames) ==
    /\ r_pc = "poll"
    /\ sockets = "open"
    /\ receive_count < MaxFrames
    /\ \E frame \in frames : r_msg' = Some(Arrived(frame, receive_count + 1))
    /\ receive_count' = receive_count + 1
    /\ r_pc' = "process"
    /\ UNCHANGED << running, confVars, subVars, sideVars, message_queue, process_count,
                    seqVars, aggVars, db_conn, now, sockets, p_pc, p_msg,
                    s_pc, handed, accessed, dropped >>

\* MT5TickSubscriber._process_tick(symbol, payload): no sequence check
backup_process_tick(symbol, payload) ==
    IF payload.json /\ payload.bid # None
    THEN \E db_ok \in BOOLEAN : aggregate_tick(symbol, payload.bid[1], payload.time, db_ok)
    ELSE UNCHANGED aggVars

BackupProcess ==
    /\ r_pc = "process"
    /\ IF r_msg[1].parts = 3
       THEN /\ backup_process_tick(r_msg[1].symbol, r_msg[1].payload)
            /\ handed' = Append(handed, r_msg[1].n)
            /\ accessed' = IF r_msg[1].payload.json /\ r_msg[1].payload.bid # None
                           THEN accessed \cup {"receiver"}
                           ELSE accessed
       ELSE UNCHANGED << aggVars, handed, accessed >>
    /\ r_msg' = None
    /\ r_pc' = "loop"
    /\ UNCHANGED << running, confVars, subVars, sideVars, message_queue, receive_count, process_count,
                    seqVars, db_conn, now, sockets, p_pc, p_msg, s_pc, dropped >>

BackupStopBegin ==
    /\ s_pc = "idle"
    /\ running' = FALSE
    /\ s_pc' = "join"
    /\ UNCHANGED << confVars, subVars, sideVars, message_queue, receive_count, process_count,
                    seqVars, aggVars, db_conn, now, sockets, r_pc, r_msg, p_pc, p_msg,
                    handed, accessed, dropped >>

\* receive_thread.join(timeout=1.0)
BackupStopJoin ==
    /\ s_pc = "join"
    /\ s_pc' = "close_sockets"
    /\ UNCHANGED << running, confVars, subVars, sideVars, message_queue, receive_count, process_count,
                    seqVars, aggVars, db_conn, now, sockets, r_pc, r_msg, p_pc, p_msg,
                    handed, accessed, dropped >>

\* socket.close(); context.term()
BackupStopCloseSockets ==
    /\ s_pc = "close_sockets"
    /\ sockets' = "closed"
    /\ s_pc' = "save"
    /\ UNCHANGED << running, confVars, subVars, sideVars, message_queue, receive_count, process_count,
                    seqVars, aggVars, db_conn, now, r_pc, r_msg, p_pc, p_msg,
                    handed, accessed, dropped >>

\* if self.minute_start_time and self.gap_counts: self._save_gap_counts()
BackupStopSave ==
    /\ s_pc = "save"
    /\ IF minute_start_time # None /\ DOMAIN gap_counts # {}
       THEN \E db_ok \in BOOLEAN :
                /\ tick_gaps' = save_gap_counts(db_ok)
                /\ flushed' = save_log(db_ok)
                /\ gap_counts' = MarkWritten(db_ok)
                /\ last_save' = SaveOutcome(db_ok)
       ELSE UNCHANGED << tick_gaps, flushed, gap_counts, last_save >>
    /\ accessed' = accessed \cup {"stop"}
    /\ s_pc' = "close_db"
    /\ UNCHANGED << running, confVars, subVars, sideVars, message_queue, receive_count, process_count,
                    seqVars, prev_bids, minute_start_time, last_gap, window_ticks, classified,
                    db_conn, now,
                    sockets, r_pc, r_msg, p_pc, p_msg, handed, dropped >>

BackupStopCloseDb ==
    /\ s_pc = "close_db"
    /\ db_conn' = IF db_conn = "open" THEN "closed" ELSE db_conn
    /\ s_pc' = "done"
    /\ UNCHANGED << running, confVars, subVars, sideVars, message_queue, receive_count, process_count,
                    seqVars, aggVars, now, sockets, r_pc, r_msg, p_pc, p_msg,
                    handed, accessed, dropped >>

---------------------------------------------------------------------------
(* Specifications *)

Next ==
    \/ ReceiverCheck \/ ReceiverPollNothing \/ ReceiverPollError \/ ReceiverBackoff
    \/ ReceiverRecv(PipeFrames) \/ ReceiverConfirm
    \/ ReceiverPut \/ ReceiverPutFull
    \/ ProcessorCheck \/ ProcessorGet \/ ProcessorGetEmpty \/ ProcessorProcess
    \/ StopBegin \/ StopJoin \/ StopSave \/ StopCloseSockets \/ StopCloseDb

Spec == Init /\ [][Next]_vars

\* where no queue and no confirmation socket is in use, their configuration is
\* the smallest one
InitDirect == Init /\ queue_size = 1 /\ ~enable_confirmations

NextSeq == FeedTick(SeqTicks) \/ ProcessorProcess \/ ClockTick

SpecSeq == InitDirect /\ [][NextSeq]_vars

NextAgg == FeedTick(AggTicks) \/ ProcessorProcess

SpecAgg == InitDirect /\ [][NextAgg]_vars

\* the three threads of start() and the thread of stop(), each scheduled again
\* and again: every blocking call of the loops has a timeout
ReceiverTask ==
    \/ ReceiverCheck \/ ReceiverPollNothing \/ ReceiverPollError \/ ReceiverBackoff
    \/ ReceiverRecv(LiveFrames) \/ ReceiverConfirm
    \/ ReceiverPut \/ ReceiverPutFull

ProcessorTask ==
    ProcessorCheck \/ ProcessorGet \/ ProcessorGetEmpty \/ ProcessorProcess

StatsTask == StatsCheck \/ StatsReport

StopTask == StopBegin \/ StopJoin \/ StopSave \/ StopCloseSockets \/ StopCloseDb

NextLive == ReceiverTask \/ ProcessorTask \/ StatsTask \/ StopTask

SpecLive ==
    /\ Init
    /\ [][NextLive]_vars
    /\ WF_vars(ReceiverTask)
    /\ WF_vars(ProcessorTask)
    /\ WF_vars(StatsTask)

\* the pipeline fed by the publisher of stress_test_high_volume.py
NextPublished ==
    \/ ReceiverCheck \/ ReceiverPollNothing \/ ReceiverPollError \/ ReceiverBackoff
    \/ ReceiverRecvPublished \/ ReceiverConfirm
    \/ ReceiverPut \/ ReceiverPutFull
    \/ ProcessorTask
    \/ StopTask

SpecPublished == Init /\ [][NextPublished]_vars

\* the threads and the wall clock, with the smallest queue
InitStats == Init /\ queue_size = 1

NextStats == NextLive \/ ClockTick

SpecStats == InitStats /\ [][NextStats]_vars

NextBid == FeedTick(BidTicks) \/ ProcessorProcess

SpecBid == InitDirect /\ [][NextBid]_vars

NextReplay == FeedReplayed \/ ProcessorProcess \/ ClockTick

SpecReplay == InitDirect /\ [][NextReplay]_vars

NextOrdered == FeedOrdered \/ ProcessorProcess

SpecOrdered == InitDirect /\ [][NextOrdered]_vars

\* the simple subscriber alone
NextSubscriber == SubscriberReceive

SpecSubscriber == InitDirect /\ [][NextSubscriber]_vars

NextBackup ==
    \/ BackupReceiverCheck \/ BackupPollNothing \/ BackupRecv(PipeFrames)
    \/ BackupProcess
    \/ BackupStopBegin \/ BackupStopJoin \/ BackupStopCloseSockets
    \/ BackupStopSave \/ BackupStopCloseDb

SpecBackup == InitDirect /\ [][NextBackup]_vars

---------------------------------------------------------------------------
(* Properties *)

\* the processor thread runs the loop body on the frame it holds
ProcessingStep == p_pc = "process" /\ p_pc' = "loop"

\* the frame it holds is a tick whose payload parses
HoldsTick == p_msg # None /\ p_msg[1].parts = 3 /\ p_msg[1].payload.json

\* the sequence numbers given to _check_sequence for `symbol`, in order
SeqNumsOf(symbol) ==
    LET entries == SelectSeq(seq_log, LAMBDA e : e[1] = symbol)
    IN  [i \in 1..Len(entries) |-> entries[i][2]]

StrictlyIncreasing(q) == \A i \in 1..(Len(q) - 1) : q[i] < q[i + 1]

Consecutive(q) == \A i \in 1..(Len(q) - 1) : q[i + 1] = q[i] + 1

\* C1 as stated, its example: after the sequence 1, 2, 5 of one symbol there is
\* exactly one GapEvent, with gap_size 3, expected_seq 3 and received_seq 5, and
\* the counter has grown by 3
C1_Example_AsStated ==
    seq_log = << << EURUSD, 1 >>, << EURUSD, 2 >>, << EURUSD, 5 >> >>
        => /\ gap_events = << [symbol |-> EURUSD, gap_size |-> 3,
                               expected_seq |-> 3, received_seq |-> 5] >>
           /\ missed_messages = 3

\* C1 amended: for a symbol with last-seen value L, a tick with seq_num > L + 1
\* appends exactly one GapEvent (expected_seq = L + 1, received_seq = seq_num,
\* gap_size = seq_num - (L + 1)) and adds gap_size to the missed-message
\* counter; after 1, 2, 5 that is one event with gap_size 2
C1_GapEvent ==
    [][(/\ ProcessingStep
        /\ HoldsTick
        /\ p_msg[1].payload.seq_num # None
        /\ p_msg[1].symbol \in DOMAIN seq_nums
        /\ p_msg[1].payload.seq_num[1] > seq_nums[p_msg[1].symbol] + 1)
       => LET S == p_msg[1].symbol
              q == p_msg[1].payload.seq_num[1]
              L == seq_nums[S]
          IN  /\ gap_events' = Append(gap_events,
                                      [symbol |-> S, gap_size |-> q - (L + 1),
                                       expected_seq |-> L + 1, received_seq |-> q])
              /\ missed_messages' = missed_messages + (q - (L + 1))]_vars

\* C1 witness: the sequence 1, 2, 5 of one symbol has been processed
C1_Witness ==
    /\ seq_log = << << EURUSD, 1 >>, << EURUSD, 2 >>, << EURUSD, 5 >> >>
    /\ gap_events = << [symbol |-> EURUSD, gap_size |-> 2,
                        expected_seq |-> 3, received_seq |-> 5] >>
    /\ missed_messages = 2

\* C2 as stated: while the processed seq_num are strictly increasing per symbol
\* the missed-message counter is 0
C2_StrictlyIncreasing ==
    (\A symbol \in Symbols : StrictlyIncreasing(SeqNumsOf(symbol)))
        => missed_messages = 0

\* C2 amended: while the processed seq_num of each symbol increase by exactly
\* one from tick to tick the missed-message counter is 0
C2_Consecutive ==
    (\A symbol \in Symbols : Consecutive(SeqNumsOf(symbol)))
        => missed_messages = 0

\* C2 witness: three consecutive numbers of one symbol have been processed
C2_Witness ==
    /\ Len(SeqNumsOf(EURUSD)) = 3
    /\ Consecutive(SeqNumsOf(EURUSD))
    /\ SeqNumsOf(USDJPY) = << >>
    /\ missed_messages = 0

\* the receiver gives up the frame in its hand after queue.Full
DropStep ==
    /\ r_pc = "put"
    /\ queue_full(message_queue, queue_size)
    /\ r_pc' # "put"

\* the counters the receiver object keeps
Counters == << receive_count, process_count, missed_messages >>

\* the elements of a sequence, as a set
Range(q) == {q[i] : i \in 1..Len(q)}

\* C3: the frames handed to tick processing are, in this order, frames the
\* receiver has received in that order: their arrival numbers are among
\* 1..receive_count and strictly increase, for every queue capacity
C3_FifoOrder ==
    /\ Range(handed) \subseteq 1..receive_count
    /\ StrictlyIncreasing(handed)

\* C3 witness: with a frame dropped in between, two retained frames have been
\* handed to tick processing
C3_Witness ==
    /\ Len(handed) = 2
    /\ \E d \in Range(dropped) : handed[1] < d.n /\ d.n < handed[2]

\* C4 as stated: when the enqueue attempt ends with queue.Full, the frame is
\* dropped and never processed later, a counter of the receiver grows by exactly
\* one, and the receiver goes on with the next poll
C4_DropCounted ==
    [][DropStep
       => /\ r_pc' = "loop"
          /\ message_queue' = message_queue
          /\ r_msg' = None
          /\ \/ receive_count' = receive_count + 1
             \/ process_count' = process_count + 1
             \/ missed_messages' = missed_messages + 1]_vars

\* C4, what the code does: the frame is dropped and the receiver goes on with
\* the next poll, but no counter moves
C4_DropNotCounted ==
    [][DropStep
       => /\ r_pc' = "loop"
          /\ message_queue' = message_queue
          /\ r_msg' = None
          /\ Counters' = Counters]_vars

\* a dropped frame is never handed to tick processing
C4_DroppedNeverProcessed == {d.n : d \in Range(dropped)} \cap Range(handed) = {}

\* C5: the queue never holds more frames than its capacity, which is at least 1
C5_QueueBounded ==
    /\ queue_size >= 1
    /\ Len(message_queue) <= queue_size

\* C5 witness: the queue of the largest capacity is full while the receiver
\* has another frame to enqueue
C5_Witness ==
    /\ queue_size = MaxQueueSize
    /\ Len(message_queue) = queue_size
    /\ r_pc = "put"

\* the processor runs _process_tick on a tick that carries time and bid
AggregationStep ==
    /\ ProcessingStep
    /\ HoldsTick
    /\ p_msg[1].payload.bid # None
    /\ p_msg[1].payload.time # None

\* ... and the minute of that tick is not the minute of the open window
RolloverStep ==
    /\ AggregationStep
    /\ minute_start_time # None
    /\ TruncMinute(p_msg[1].payload.time[1]) # minute_start_time[1]

\* the large and small counters of a bucket
CountsOf(bucket) == [large |-> bucket.large, small |-> bucket.small]

\* C6: at a minute rollover the save of the open window is made first (it is
\* skipped without a connection, and may fail with a database error); when it
\* writes, the row of every symbol of the old window holds that window's counts
\* as they were before the tick; afterwards the open window is at the tick's
\* minute and holds only the tick's own, new bucket, with at most the tick's
\* one classification in it
C6_RolloverOrder ==
    [][RolloverStep
       => LET S   == p_msg[1].symbol
              old == minute_start_time[1]
          IN  /\ last_save' \in (IF db_conn = "open" THEN {"saved", "error"}
                                                  ELSE {"skipped"})
              /\ last_save' = "saved"
                    => \A sym \in DOMAIN gap_counts :
                          {r \in tick_gaps' : r.timestamp = old /\ r.symbol = sym}
                              = {[timestamp |-> old, symbol |-> sym,
                                  large_gap_count |-> gap_counts[sym].large,
                                  small_gap_count |-> gap_counts[sym].small]}
              /\ last_save' # "saved" => tick_gaps' = tick_gaps
              /\ minute_start_time' = Some(TruncMinute(p_msg[1].payload.time[1]))
              /\ DOMAIN gap_counts' = {S}
              /\ ~gap_counts'[S].written
              /\ gap_counts'[S].large + gap_counts'[S].small
                    = (IF S \in DOMAIN prev_bids THEN 1 ELSE 0)]_vars

\* C6 witness: ticks at 12:00:59, 12:00:59 and 12:01:00 of one symbol; the row
\* of 12:00 holds the one large gap of that minute and the window of 12:01
\* holds the small gap of the third tick
C6_Witness ==
    /\ last_save = "saved"
    /\ tick_gaps = {[timestamp |-> 43200, symbol |-> EURUSD,
                      large_gap_count |-> 1, small_gap_count |-> 0]}
    /\ minute_start_time = Some(43260)
    /\ DOMAIN gap_counts = {EURUSD}
    /\ CountsOf(gap_counts[EURUSD]) = [large |-> 0, small |-> 1]

\* the bucket a classification starts from: the symbol's bucket of the open
\* window, or a new one after a rollover or for a symbol not yet in the window
BucketBefore(S, time) ==
    IF /\ minute_start_time # None
       /\ TruncMinute(time) = minute_start_time[1]
       /\ S \in DOMAIN gap_counts
    THEN CountsOf(gap_counts[S])
    ELSE [large |-> 0, small |-> 0]

\* C7 as stated: for a tick with time and bid of a symbol S that has a previous
\* bid, exactly one counter of S's bucket grows by exactly 1: large when
\* |bid - prev_bid| >= pip_size(S), a move of exactly one pip included, small
\* otherwise (prices in units of 0.00001: the pip is 1000 or 10 units)
C7_PipClassification ==
    [][(AggregationStep /\ p_msg[1].symbol \in DOMAIN prev_bids)
       => LET S      == p_msg[1].symbol
              bid    == p_msg[1].payload.bid[1]
              before == BucketBefore(S, p_msg[1].payload.time[1])
              pip    == IF endswith(S, << "J", "P", "Y" >>) THEN 1000 ELSE 10
          IN  /\ S \in DOMAIN gap_counts'
              /\ CountsOf(gap_counts'[S])
                    = (IF Abs(bid - prev_bids[S]) >= pip
                       THEN [before EXCEPT !.large = @ + 1]
                       ELSE [before EXCEPT !.small = @ + 1])]_vars

\* C8: the pip is 0.01 (1000 units) for a symbol that ends with JPY and 0.0001
\* (10 units) for every other symbol, on every call: a move below the pip is
\* counted small and a move above it large, so that for USDJPY 150.00 ->
\* 150.005 is small and 150.00 -> 150.02 is large
C8_PipSize ==
    [][(AggregationStep /\ p_msg[1].symbol \in DOMAIN prev_bids)
       => LET S      == p_msg[1].symbol
              D      == Abs(p_msg[1].payload.bid[1] - prev_bids[S])
              before == BucketBefore(S, p_msg[1].payload.time[1])
              pip    == IF endswith(S, << "J", "P", "Y" >>) THEN 1000 ELSE 10
          IN  /\ D < pip => CountsOf(gap_counts'[S]) = [before EXCEPT !.small = @ + 1]
              /\ D > pip => CountsOf(gap_counts'[S]) = [before EXCEPT !.large = @ + 1]
              /\ (S = USDJPY /\ prev_bids[S] = 15000000)
                    => /\ p_msg[1].payload.bid[1] = 15000500
                            => gap_counts'[S].small = before.small + 1
                       /\ p_msg[1].payload.bid[1] = 15002000
                            => gap_counts'[S].large = before.large + 1]_vars

\* C8 witness: USDJPY 150.02, 150.00, 150.005 in one minute: the move to 150.00
\* was counted large and the move 150.00 -> 150.005 small
C8_Witness ==
    /\ last_gap = Some([symbol |-> USDJPY, prev_bid |-> 15000000,
                        current_bid |-> 15000500, large |-> FALSE])
    /\ USDJPY \in DOMAIN gap_counts
    /\ CountsOf(gap_counts[USDJPY]) = [large |-> 1, small |-> 1]

\* the row of every bucket of the open window holds the bucket's counts
WindowOnDisk ==
    \A symbol \in DOMAIN gap_counts :
        [timestamp |-> minute_start_time[1], symbol |-> symbol,
         large_gap_count |-> gap_counts[symbol].large,
         small_gap_count |-> gap_counts[symbol].small] \in tick_gaps

\* C9 as stated, its order of release: the sockets and the connection are
\* released only after the flush of the open window has completed, so while a
\* window is open on a working connection and the thread that processes has
\* ended, closed sockets mean that every bucket of the window has been written
C9_FlushBeforeRelease ==
    (/\ sockets = "closed"
     /\ r_pc = "done"
     /\ db_conn = "open"
     /\ minute_start_time # None
     /\ last_save # "error")
        => \A symbol \in DOMAIN gap_counts : gap_counts[symbol].written

\* C9 in the two-thread receiver: once the processor has ended and a resource
\* is released, a window whose last save has committed is in the table as the
\* processor left it
C9_WindowOnDiskAtRelease ==
    (/\ p_pc = "done"
     /\ sockets = "closed" \/ db_conn = "closed"
     /\ minute_start_time # None
     /\ last_save = "saved")
        => WindowOnDisk

\* C10 as stated: a bucket that a flush has written keeps its large and small
\* counters for as long as it stays in the window, in every interleaving of the
\* receiver, the processor and stop()
C10_NoMutationAfterFlush ==
    [][\A symbol \in DOMAIN gap_counts :
           (/\ gap_counts[symbol].written
            /\ symbol \in DOMAIN gap_counts'
            /\ gap_counts'[symbol].written)
               => CountsOf(gap_counts'[symbol]) = CountsOf(gap_counts[symbol])]_vars

\* C11 as stated: seq_nums, prev_bids, gap_counts and minute_start_time are read
\* and written by the processor thread only, at any time
C11_SingleWriter == accessed \subseteq {"processor"}

\* C11, the case the claim singles out: the thread that executes stop() reads
\* them only when the processor has ended
C11_StopAfterProcessor ==
    [][("stop" \notin accessed /\ "stop" \in accessed') => p_pc = "done"]_vars

\* C12: the table tick_gaps never holds two rows of one (timestamp, symbol), and
\* after a committed save the only stored row of each saved key is the row just
\* written, with the bucket's counts at the time of the save, whatever was
\* stored under that key before
C12_FlushIdempotent ==
    [][/\ \A r1, r2 \in tick_gaps' :
              (r1.timestamp = r2.timestamp /\ r1.symbol = r2.symbol) => r1 = r2
       /\ flushed' # flushed
            => /\ Len(flushed') = Len(flushed) + 1
               /\ \A n \in flushed'[Len(flushed')] :
                     /\ n.large_gap_count = gap_counts[n.symbol].large
                     /\ n.small_gap_count = gap_counts[n.symbol].small
                     /\ {r \in tick_gaps' : r.timestamp = n.timestamp /\ r.symbol = n.symbol}
                            = {n}]_vars

\* C12 witness: one key has been saved twice with different counts, and the
\* table holds the later row and not the earlier one
C12_Witness ==
    \E i, j \in 1..Len(flushed) :
        /\ i < j
        /\ \E a \in flushed[i], b \in flushed[j] :
              /\ a.timestamp = b.timestamp /\ a.symbol = b.symbol
              /\ a # b
              /\ b \in tick_gaps
              /\ a \notin tick_gaps

\* C13 as stated: processing a tick whose payload has no bid leaves seq_nums,
\* the missed-message counter, the GapEvents, prev_bids and the open minute
\* window unchanged, even when the tick carries seq_num and time
C13_NoBidDiscarded ==
    [][(ProcessingStep /\ HoldsTick /\ p_msg[1].payload.bid = None)
       => UNCHANGED << seq_nums, missed_messages, gap_events,
                       prev_bids, minute_start_time, gap_counts >>]_vars

\* C13, what the code does: such a tick leaves prev_bids and the open minute
\* window unchanged, and the sequence check is made on it as on any other tick
C13_NoBidSkipsAggregation ==
    [][(ProcessingStep /\ HoldsTick /\ p_msg[1].payload.bid = None)
       => /\ UNCHANGED << prev_bids, minute_start_time, gap_counts, tick_gaps >>
          /\ p_msg[1].payload.seq_num # None
                => seq_nums'[p_msg[1].symbol] = p_msg[1].payload.seq_num[1]]_vars

\* the processor runs _process_tick on a tick whose bid is present and not a number
BadBidStep ==
    /\ ProcessingStep
    /\ HoldsTick
    /\ p_msg[1].payload.bid = Some(NonNumeric)

\* C14 as stated: a tick whose bid is not a number triggers no flush, creates no
\* bucket and changes neither the open minute nor the previous-bid map, so that
\* the previous bid of a symbol is always its last numeric bid
C14_BadBidDiscarded ==
    [][BadBidStep
       => UNCHANGED << tick_gaps, flushed, last_save, gap_counts,
                       minute_start_time, prev_bids >>]_vars

\* C14, what the code does with a later numeric tick: once the stored previous
\* bid of a symbol is not a number, a tick of that symbol with time and a
\* numeric bid is not classified and does not replace the stored value
C14_StoredBadBidStays ==
    [][(/\ ProcessingStep
        /\ HoldsTick
        /\ p_msg[1].payload.bid # None
        /\ p_msg[1].payload.time # None
        /\ p_msg[1].symbol \in DOMAIN prev_bids
        /\ prev_bids[p_msg[1].symbol] = NonNumeric)
       => /\ prev_bids' = prev_bids
          /\ last_gap' = last_gap
          /\ \A symbol \in DOMAIN gap_counts' :
                gap_counts'[symbol].large + gap_counts'[symbol].small = 0]_vars

\* C15: a dequeued frame that does not split into three parts changes neither
\* process_count, missed_messages, the sequence state nor the aggregation state
\* and its table, and the processor returns to the head of its loop
C15_MalformedDiscarded ==
    [][(ProcessingStep /\ p_msg # None /\ p_msg[1].parts # 3)
       => /\ UNCHANGED << process_count, missed_messages, seq_nums, gap_events,
                          prev_bids, minute_start_time, gap_counts, tick_gaps >>
          /\ p_msg' = None
          /\ p_pc' = "loop"]_vars

\* C15 witness: the first frame was dequeued and discarded (it is not among the
\* frames handed to tick processing), and the processor went on to process the
\* second one
C15_Witness ==
    /\ receive_count = 2
    /\ dropped = << >>
    /\ handed = << 2 >>
    /\ process_count = 1
    /\ p_pc = "loop"

\* C16: with confirmations enabled every received frame goes through the
\* confirmation round trip and then, whether the reply arrived, the request
\* failed or the reply timed out, is offered to the queue (enqueued, or dropped
\* only because the queue is full); the receiver loop ends only when running
\* has been cleared
C16_ConfirmationNeverSkips ==
    [][/\ (r_pc = "poll" /\ receive_count' = receive_count + 1)
            => /\ r_msg' # None
               /\ r_pc' = IF enable_confirmations THEN "confirm" ELSE "put"
       /\ (r_pc = "confirm" /\ r_pc' # "confirm")
            => /\ r_pc' = "put"
               /\ r_msg' = r_msg
       /\ (r_pc = "put" /\ r_pc' # "put")
            => /\ r_pc' = "loop"
               /\ \/ message_queue' = Append(message_queue, r_msg[1])
                  \/ /\ Len(message_queue) >= queue_size
                     /\ message_queue' = message_queue
       /\ (r_pc # "done" /\ r_pc' = "done") => ~running]_vars

\* C16 witness: a reply has timed out (the REQ socket still awaits it, so the
\* requests after it fail), and all three frames received have been processed
C16_Witness ==
    /\ enable_confirmations
    /\ requester = "awaiting"
    /\ receive_count = 3
    /\ handed = << 1, 2, 3 >>

\* C17: once running has been cleared, the receiver, processor and stats loops
\* all come to their end, each thread being scheduled again and again (weak
\* fairness per thread); a full or empty queue holds none of them
C17_ShutdownTerminates ==
    ~running ~> (r_pc = "done" /\ p_pc = "done" /\ st_pc = "done")

\* C17 witness: the three loops have ended after shutdown and the queue was
\* left full
C17_Witness ==
    /\ ~running
    /\ r_pc = "done"
    /\ p_pc = "done"
    /\ st_pc = "done"
    /\ Len(message_queue) = queue_size

\* C18: while running is set neither the receiver loop nor the processor loop
\* has ended, whatever channel errors, frames of the wrong format, payloads that
\* are not JSON, confirmation failures or database errors have occurred
C18_NoErrorEndsLoop ==
    running => (r_pc # "done" /\ p_pc # "done")

\* C18 witness: running is set, the receiver is in its backoff after a channel
\* error, a save has failed with a database error, one of the three frames was
\* discarded for its format, and the processor is waiting for the next frame
C18_Witness ==
    /\ running
    /\ r_pc = "backoff"
    /\ last_save = "error"
    /\ receive_count = 3
    /\ dropped = << >>
    /\ message_queue = << >>
    /\ Len(handed) = 2
    /\ p_pc = "get"

\* the dropped ticks of symbol S with a sequence number that lie between the
\* last tick of S the detector has seen (none: all of them) and the tick with
\* number q that it is seeing now
DroppedBefore(S, q) ==
    {d \in Range(dropped) :
        /\ d.symbol = S
        /\ d.payload.seq_num # None
        /\ d.payload.seq_num[1] < q
        /\ S \in DOMAIN seq_nums => seq_nums[S] < d.payload.seq_num[1]}

\* the detector reports a gap whose range [expected_seq, received_seq) holds
\* the number of every tick in `ticks`
GapCovers(S, ticks) ==
    /\ Len(gap_events') = Len(gap_events) + 1
    /\ LET event == gap_events'[Len(gap_events')]
       IN  /\ event.symbol = S
           /\ \A d \in ticks :
                 /\ event.expected_seq <= d.payload.seq_num[1]
                 /\ d.payload.seq_num[1] < event.received_seq

C20_FirstSighting ==
    [][(/\ ProcessingStep
        /\ HoldsTick
        /\ p_msg[1].payload.seq_num # None
        /\ p_msg[1].symbol \notin DOMAIN seq_nums)
       => /\ UNCHANGED << gap_events, missed_messages, sequence_gaps >>
          /\ DOMAIN seq_nums' = DOMAIN seq_nums \cup {p_msg[1].symbol}
          /\ seq_nums'[p_msg[1].symbol] = p_msg[1].payload.seq_num[1]
          /\ \A symbol \in DOMAIN seq_nums : seq_nums'[symbol] = seq_nums[symbol]]_vars

\* C20 witness: the first tick of EURUSD had the largest number and that of
\* USDJPY a smaller one; both are stored and nothing was reported
C20_Witness ==
    /\ seq_log = << << EURUSD, MaxSeq >>, << USDJPY, 3 >> >>
    /\ seq_nums = [symbol \in Symbols |-> IF symbol = EURUSD THEN MaxSeq ELSE 3]
    /\ gap_events = << >>
    /\ missed_messages = 0

\* the sum of the gap_size column of a set of rows
RECURSIVE SumGapSize(_)
SumGapSize(rows) ==
    IF rows = {} THEN 0
    ELSE LET r == CHOOSE x \in rows : TRUE
         IN  r.gap_size + SumGapSize(rows \ {r})

\* no INSERT INTO sequence_gaps has met a missing or failing database
SinkAvailable ==
    /\ db_conn = "open"
    /\ \A i \in 1..Len(gap_saves) : gap_saves[i] \notin {"skipped", "error"}

\* C21 as stated: while the sink is available every GapEvent has its own row in
\* sequence_gaps, so the table has as many rows as there are GapEvents and the
\* sum of its gap_size column is the missed-message counter
C21_EveryGapStored ==
    SinkAvailable
        => /\ Cardinality(sequence_gaps) = Len(gap_events)
           /\ SumGapSize(sequence_gaps) = missed_messages

\* C21, what the code does: the rows and the counter agree as long as every
\* INSERT has found its key (timestamp, symbol, expected_seq) free; an INSERT
\* under a stored key raises sqlite3.IntegrityError and adds no row
C21_StoredWhenKeyFree ==
    /\ Len(gap_saves) = Len(gap_events)
    /\ (\A i \in 1..Len(gap_saves) : gap_saves[i] = "stored")
          => /\ Cardinality(sequence_gaps) = Len(gap_events)
             /\ SumGapSize(sequence_gaps) = missed_messages
    /\ [][gap_saves' # gap_saves
            => /\ gap_saves'[Len(gap_saves')] = "conflict" => sequence_gaps' = sequence_gaps
               /\ gap_saves'[Len(gap_saves')] = "stored"
                     => Cardinality(sequence_gaps') = Cardinality(sequence_gaps) + 1]_vars

\* C22 as stated: when stop() has returned after a committed save, with a
\* window open that holds at least one bucket, the row of every bucket of the
\* window holds the bucket's final counts
C22_FinalCountsWritten ==
    (/\ s_pc = "done"
     /\ last_save = "saved"
     /\ minute_start_time # None
     /\ DOMAIN gap_counts # {})
        => WindowOnDisk

\* C22, what the code does: the save that stop() makes writes the row of every
\* bucket with the counts the bucket has at that moment, buckets with zero
\* counts included; the processor, joined with a timeout only, may still be
\* running and count afterwards
C22_FlushAtStop ==
    [][(/\ s_pc = "save"
        /\ s_pc' # "save"
        /\ minute_start_time # None
        /\ last_save' = "saved")
       => /\ WindowOnDisk'
          /\ \A symbol \in DOMAIN gap_counts :
                /\ symbol \in DOMAIN gap_counts'
                /\ CountsOf(gap_counts'[symbol]) = CountsOf(gap_counts[symbol])]_vars

\* a step of the stats thread
StatsStep == st_pc' # st_pc

\* C23: a step of the stats loop changes nothing but the position of the stats
\* thread and last_report_time: the queue, the three counters,
\* the sequence state, the aggregation state and its tables, the positions and
\* frames of receiver and processor, running and the sockets stay as they are
C23_StatsObservational ==
    [][StatsStep
       => UNCHANGED << message_queue, receive_count, process_count, missed_messages,
                       seq_nums, gap_events, sequence_gaps,
                       prev_bids, minute_start_time, gap_counts, tick_gaps,
                       running, queue_size, enable_confirmations, requester,
                       db_conn, sockets, r_pc, r_msg, p_pc, p_msg, s_pc,
                       handed, dropped >>]_vars

\* C23 witness: the stats loop has made a report in the second second, and a
\* frame has been received and processed
C23_Witness ==
    /\ last_report_time = 1
    /\ st_pc = "loop"
    /\ receive_count = 1
    /\ process_count = 1
    /\ message_queue = << >>
    /\ handed = << 1 >>

\* C24: in every step of the receiver, the processor and stop(), receive_count,
\* process_count and missed_messages are at least what they were, and so is the
\* number of frames dropped on a full queue (of which the receiver keeps no
\* counter; it is the length of the history `dropped`)
C24_CountersMonotone ==
    [][/\ receive_count' >= receive_count
       /\ process_count' >= process_count
       /\ missed_messages' >= missed_messages
       /\ Len(dropped') >= Len(dropped)]_vars

\* C24 witness: three ticks were received, one of them was dropped, two were
\* processed and the gap the drop left was counted
C24_Witness ==
    /\ receive_count = 3
    /\ process_count = 2
    /\ Len(dropped) = 1
    /\ missed_messages = 1

\* C25: after processing a tick of symbol S that carries seq_num, the last-seen
\* value of S is that seq_num, whether it is above, equal to or below the value
\* stored before, and the values of the other symbols stay
C25_UnconditionalOverwrite ==
    [][(/\ ProcessingStep
        /\ HoldsTick
        /\ p_msg[1].payload.seq_num # None)
       => /\ p_msg[1].symbol \in DOMAIN seq_nums'
          /\ seq_nums'[p_msg[1].symbol] = p_msg[1].payload.seq_num[1]
          /\ \A symbol \in DOMAIN seq_nums \ {p_msg[1].symbol} :
                seq_nums'[symbol] = seq_nums[symbol]]_vars

\* C25 witness: after 4 the lower number 2 became the last-seen value, and the
\* tick that repeated 4 was reported as a gap
C25_Witness ==
    /\ seq_log = << << EURUSD, 4 >>, << EURUSD, 2 >>, << EURUSD, 4 >> >>
    /\ seq_nums[EURUSD] = 4
    /\ gap_events = << [symbol |-> EURUSD, gap_size |-> 1,
                        expected_seq |-> 3, received_seq |-> 4] >>
    /\ missed_messages = 1

\* C26: a tick with seq_num <= L + 1 of a symbol with last-seen value L emits no
\* GapEvent, stores no sequence_gaps row and leaves the missed-message counter
\* unchanged
C26_NoGapUpToExpected ==
    [][(/\ ProcessingStep
        /\ HoldsTick
        /\ p_msg[1].payload.seq_num # None
        /\ p_msg[1].symbol \in DOMAIN seq_nums
        /\ p_msg[1].payload.seq_num[1] <= seq_nums[p_msg[1].symbol] + 1)
       => UNCHANGED << gap_events, missed_messages, sequence_gaps >>]_vars

\* C26 witness: after 2 the numbers 3 (in order), 3 (duplicate) and 1 (out of
\* order) were processed and nothing was reported
C26_Witness ==
    /\ seq_log = << << EURUSD, 2 >>, << EURUSD, 3 >>, << EURUSD, 3 >>, << EURUSD, 1 >> >>
    /\ gap_events = << >>
    /\ sequence_gaps = {}
    /\ missed_messages = 0

\* C27: with the publisher numbering the ticks of each symbol upwards and ticks
\* lost only on a full queue, a symbol once in seq_nums stays there and its
\* last-seen value never decreases
C27_LastSeenNeverDecreases ==
    [][\A symbol \in DOMAIN seq_nums :
           /\ symbol \in DOMAIN seq_nums'
           /\ seq_nums'[symbol] >= seq_nums[symbol]]_vars

\* C27 witness: ticks 0 and 1 of EURUSD were processed in the order sent, with a
\* tick of USDJPY dropped on a full queue, and the last-seen value has moved up
C27_Witness ==
    /\ seq_log = << << EURUSD, 0 >>, << EURUSD, 1 >> >>
    /\ DOMAIN seq_nums = {EURUSD}
    /\ seq_nums[EURUSD] = 1
    /\ Len(dropped) = 1
    /\ dropped[1].symbol = USDJPY

\* abs(current_bid - prev_bid) is computed on a value that is not a number
RaisesTypeError ==
    /\ p_msg[1].payload.time # None
    /\ p_msg[1].symbol \in DOMAIN prev_bids
    /\ ~(IsNumber(p_msg[1].payload.bid[1]) /\ IsNumber(prev_bids[p_msg[1].symbol]))

\* C28 as stated, for a tick whose bid is a number: after it is processed the
\* previous-bid entry of its symbol is its bid, with or without time
C28_BidBecomesPrevious ==
    [][(/\ ProcessingStep
        /\ HoldsTick
        /\ p_msg[1].payload.bid # None
        /\ IsNumber(p_msg[1].payload.bid[1]))
       => /\ p_msg[1].symbol \in DOMAIN prev_bids'
          /\ prev_bids'[p_msg[1].symbol] = p_msg[1].payload.bid[1]]_vars

\* C28, what the code does: the bid becomes the previous bid unless the
\* classification raises TypeError, and then prev_bids is left as it was
C28_BidStoredUnlessTypeError ==
    [][(/\ ProcessingStep
        /\ HoldsTick
        /\ p_msg[1].payload.bid # None)
       => IF RaisesTypeError
          THEN prev_bids' = prev_bids
          ELSE /\ p_msg[1].symbol \in DOMAIN prev_bids'
               /\ prev_bids'[p_msg[1].symbol] = p_msg[1].payload.bid[1]
               /\ \A symbol \in DOMAIN prev_bids \ {p_msg[1].symbol} :
                     prev_bids'[symbol] = prev_bids[symbol]]_vars

\* C29: a tick with a bid and no time triggers no save, changes neither
\* minute_start_time nor the buckets of the window nor the table, makes no
\* classification, and its bid becomes the previous bid of its symbol
C29_NoTimeLeavesWindow ==
    [][(/\ ProcessingStep
        /\ HoldsTick
        /\ p_msg[1].payload.bid # None
        /\ p_msg[1].payload.time = None)
       => /\ UNCHANGED << tick_gaps, flushed, last_save, minute_start_time,
                          gap_counts, last_gap >>
          /\ prev_bids' = MapPut(prev_bids, p_msg[1].symbol, p_msg[1].payload.bid[1])]_vars

\* C29 witness: two ticks of 12:00:59 made the large gap 1.10000 -> 1.10011,
\* then a tick without time brought the bid 1.10005: the window and its one
\* count are as they were and the previous bid is 1.10005
C29_Witness ==
    /\ handed = << 1, 2, 3 >>
    /\ last_gap = Some([symbol |-> EURUSD, prev_bid |-> 110000,
                        current_bid |-> 110011, large |-> TRUE])
    /\ prev_bids = [symbol \in {EURUSD} |-> 110005]
    /\ minute_start_time = Some(43200)
    /\ DOMAIN gap_counts = {EURUSD}
    /\ CountsOf(gap_counts[EURUSD]) = [large |-> 1, small |-> 0]
    /\ tick_gaps = {}

\* the processor runs _process_tick on a TICK frame whose payload is not JSON
BadJsonStep ==
    /\ ProcessingStep
    /\ p_msg # None
    /\ p_msg[1].parts = 3
    /\ ~p_msg[1].payload.json

\* C30: a TICK frame whose payload is not valid JSON changes neither the
\* sequence state, the missed-message counter, the aggregation state nor the
\* tables, and the processor returns to the head of its loop, where it takes
\* the next frame
C30_BadJsonDiscarded ==
    [][BadJsonStep
       => /\ UNCHANGED << seq_nums, gap_events, sequence_gaps, missed_messages,
                          prev_bids, minute_start_time, gap_counts, tick_gaps,
                          flushed, last_gap, running >>
          /\ p_msg' = None
          /\ p_pc' = "loop"]_vars

\* C30 witness: of the first two frames one was a tick and one a payload that
\* is not JSON (both were given to _process_tick and there is a previous bid
\* but no classification), and the processor holds the third frame
C30_Witness ==
    /\ handed = << 1, 2 >>
    /\ process_count = 2
    /\ prev_bids = [symbol \in {EURUSD} |-> 110000]
    /\ last_gap = None
    /\ seq_nums = EmptyMap
    /\ p_pc = "process"
    /\ p_msg # None
    /\ p_msg[1].n = 3

\* C31: when the save at a minute rollover fails with a database error or is
\* skipped for want of a connection, nothing is written, and the tick is
\* aggregated as after a save that commits: the window is at the tick's minute
\* and holds only the tick's own new bucket with the tick's one classification
\* (none without a previous bid), and the tick's bid is the previous bid; the
\* buckets of the old window are gone
C31_FailedFlushContinues ==
    [][(RolloverStep /\ last_save' \in {"error", "skipped"})
       => LET S == p_msg[1].symbol
          IN  /\ UNCHANGED << tick_gaps, flushed >>
              /\ minute_start_time' = Some(TruncMinute(p_msg[1].payload.time[1]))
              /\ DOMAIN gap_counts' = {S}
              /\ ~gap_counts'[S].written
              /\ gap_counts'[S].large + gap_counts'[S].small
                    = (IF S \in DOMAIN prev_bids THEN 1 ELSE 0)
              /\ prev_bids'[S] = p_msg[1].payload.bid[1]
              /\ p_pc' = "loop"
              /\ process_count' = process_count + 1]_vars

\* C31 witness: the minute 12:00 had one large gap; its save at the rollover to
\* 12:01 failed on an open connection, the table is empty, and the window of
\* 12:01 holds the small gap 1.10011 -> 1.10010 of the third tick
C31_Witness ==
    /\ handed = << 1, 2, 3 >>
    /\ db_conn = "open"
    /\ last_save = "error"
    /\ tick_gaps = {}
    /\ minute_start_time = Some(43260)
    /\ DOMAIN gap_counts = {EURUSD}
    /\ CountsOf(gap_counts[EURUSD]) = [large |-> 0, small |-> 1]
    /\ last_gap = Some([symbol |-> EURUSD, prev_bid |-> 110011,
                        current_bid |-> 110010, large |-> FALSE])

\* the stats thread makes a report
ReportStep == st_pc = "sleep" /\ st_pc' = "loop"

\* C32 as stated: a report made with elapsed > 0 prints as receive rate the
\* number of frames received since the previous report, divided by elapsed, and
\* as process rate the number processed since then, divided by elapsed
C32_RatesAreDeltas ==
    [][(ReportStep /\ elapsed > 0)
       => /\ receive_rate = [num |-> receive_count - report_base.received,
                             den |-> elapsed]
          /\ process_rate = [num |-> process_count - report_base.processed,
                             den |-> elapsed]]_vars

\* C32, what the code does: the rates agree with the counts since the previous
\* report only as long as nothing had been received and processed by then;
\* otherwise they are the totals since start() divided by elapsed
C32_RatesAreTotals ==
    [][(ReportStep /\ elapsed > 0)
       => /\ receive_rate.num = receive_count
          /\ process_rate.num = process_count
          /\ receive_rate.den = elapsed
          /\ (report_base.received = 0 /\ report_base.processed = 0)
                => /\ receive_rate.num = receive_count - report_base.received
                   /\ process_rate.num = process_count - report_base.processed]_vars

\* the frame the receiver holds between recv_string and the end of put
HeldByReceiver == IF r_msg # None THEN 1 ELSE 0

\* C33: every frame counted in receive_count is dropped, in the queue, taken
\* from the queue or in the receiver's hand, and in one of them only;
\* process_count is at most the number of frames taken from the queue, hence at
\* most receive_count
C33_MessageConservation ==
    /\ receive_count = Len(dropped) + Len(message_queue) + dequeued + HeldByReceiver
    /\ process_count <= dequeued
    /\ process_count <= receive_count

\* C33 witness: of three frames received one was dropped, one is in the queue
\* and one has been taken from it and not yet processed
C33_Witness ==
    /\ receive_count = 3
    /\ Len(dropped) = 1
    /\ Len(message_queue) = 1
    /\ dequeued = 1
    /\ r_msg = None
    /\ process_count = 0

\* the frame with arrival number n is in the queue
InQueue(n) == \E i \in 1..Len(message_queue) : message_queue[i].n = n

\* C34 as stated: a frame that is in the queue is eventually taken from it, the
\* processor being scheduled again and again, also when stop() is called while
\* the frame is in the queue
C34_EnqueuedEventuallyDequeued ==
    \A n \in 1..MaxFrames : InQueue(n) ~> ~InQueue(n)

\* C34, the order at shutdown as stated: the processor loop ends on an empty
\* queue only
C34_DrainedBeforeEnd ==
    p_pc = "done" => message_queue = << >>

\* C34, what the code does: a frame in the queue is eventually taken from it
\* unless running is cleared first; the loop `while self.running` ends without
\* looking at the queue
C34_DequeuedWhileRunning ==
    \A n \in 1..MaxFrames : InQueue(n) ~> (~InQueue(n) \/ ~running)


\* the sum of gap_size over a sequence of GapEvents
RECURSIVE SumEventGapSize(_)
SumEventGapSize(events) ==
    IF events = << >> THEN 0
    ELSE Head(events).gap_size + SumEventGapSize(Tail(events))

\* the number of the first tick of a symbol that was processed
FirstProcessedSeq(symbol) ==
    LET i == CHOOSE k \in 1..Len(seq_log) :
                 /\ seq_log[k][1] = symbol
                 /\ \A j \in 1..(k - 1) : seq_log[j][1] # symbol
    IN  seq_log[i][2]

\* the ticks dropped on a full queue whose number lies, for their symbol,
\* between the first and the last processed tick of that symbol
LostBetween ==
    { i \in 1..Len(dropped) :
        /\ dropped[i].symbol \in DOMAIN seq_nums
        /\ FirstProcessedSeq(dropped[i].symbol) < dropped[i].payload.seq_num[1]
        /\ dropped[i].payload.seq_num[1] < seq_nums[dropped[i].symbol] }

\* C35: with the publisher numbering each symbol's ticks consecutively and
\* ticks lost only on a full queue, the missed-message counter is the sum of
\* gap_size over the GapEvents and the number of lost ticks that lie between
\* the first and the last processed tick of their symbol; with nothing lost it
\* is 0 and there is no GapEvent
C35_LossAccounting ==
    /\ missed_messages = SumEventGapSize(gap_events)
    /\ missed_messages = Cardinality(LostBetween)
    /\ dropped = << >> => (missed_messages = 0 /\ gap_events = << >>)

\* C35 witness: tick 0 of EURUSD was processed, ticks 1 and 2 were dropped on a
\* full queue, tick 3 was processed and one GapEvent of size 2 was emitted
C35_Witness ==
    /\ seq_log = << << EURUSD, 0 >>, << EURUSD, 3 >> >>
    /\ Len(dropped) = 2
    /\ missed_messages = 2
    /\ Len(gap_events) = 1
    /\ gap_events[1].gap_size = 2


\* C36 as stated: one window is open at most, the buckets of gap_counts are
\* those of the symbols that got a tick with time and bid since minute_start_time
\* began, and large + small of a symbol is the number of its ticks processed
\* since then that had time, a numeric bid and a previous bid of the symbol to
\* compare with
C36_OpenWindow ==
    /\ minute_start_time = None => gap_counts = EmptyMap
    /\ DOMAIN gap_counts = DOMAIN window_ticks
    /\ \A symbol \in DOMAIN gap_counts :
           gap_counts[symbol].large + gap_counts[symbol].small = window_ticks[symbol]

\* a window in which a first tick made a 0/0 bucket and a second was classified
C36_Classified ==
    /\ minute_start_time = Some(43260)
    /\ DOMAIN gap_counts = {EURUSD, USDJPY}
    /\ gap_counts[EURUSD].large + gap_counts[EURUSD].small = 1
    /\ gap_counts[USDJPY].large + gap_counts[USDJPY].small = 0
    /\ USDJPY \in DOMAIN prev_bids


\* the classifications made of the ticks of `symbol` in `minute`
ClassifiedIn(minute, symbol) ==
    IF << minute, symbol >> \in DOMAIN classified
    THEN classified[<< minute, symbol >>]
    ELSE [large |-> 0, small |-> 0]

\* C37: in a stream whose truncated minutes never go back, no (minute, symbol)
\* pair is flushed by two minute transitions, every flushed row stays in
\* tick_gaps as it was written, and the counts of a stored row are the
\* classifications made of that symbol's ticks in that minute
C37_FlushedOnce ==
    /\ \A i, j \in 1..Len(flushed) :
           i < j => \A r \in flushed[i], q \in flushed[j] : ~SameKey(r, q)
    /\ \A i \in 1..Len(flushed) : flushed[i] \subseteq tick_gaps
    /\ \A r \in tick_gaps :
           /\ r.large_gap_count = ClassifiedIn(r.timestamp, r.symbol).large
           /\ r.small_gap_count = ClassifiedIn(r.timestamp, r.symbol).small

\* C37 witness: two minute transitions have flushed, the first a row of EURUSD
\* with one classification, the second a row of EURUSD for the next minute
C37_Witness ==
    /\ Len(flushed) = 2
    /\ \E r \in flushed[1] :
           r.symbol = EURUSD /\ r.timestamp = 43200
           /\ r.large_gap_count + r.small_gap_count = 1
    /\ \E r \in flushed[2] : r.symbol = EURUSD /\ r.timestamp = 43260
    /\ minute_start_time = Some(43320)


\* the receiver runs the confirmation code for the frame in its hand
ConfirmStep == r_pc = "confirm" /\ r_pc' # "confirm"

\* C38 as stated: when the reply to an earlier request has timed out, the
\* confirmation of a later frame still sends its request and waits for the
\* reply: send_string does not raise because the socket awaits the old reply
C38_ExchangeAfterTimeout ==
    [][(ConfirmStep /\ requester = "awaiting" /\ sockets = "open")
       => ~refused']_vars

\* what the REQ socket does: once a reply has timed out, no later confirmation
\* gets its request sent, and the socket stays as it is
C38_StuckAfterTimeout ==
    [][(ConfirmStep /\ requester = "awaiting" /\ sockets = "open")
       => (refused' /\ requester' = "awaiting")]_vars


\* the ticks of `symbol` the simple subscriber has received and parsed without
\* an exception, as stored, in arrival order
ParsedTicksOf(symbol) ==
    LET good == SelectSeq(sub_log,
                          LAMBDA f : /\ f.parts = 3
                                     /\ f.symbol = symbol
                                     /\ f.payload.json
                                     /\ time_converts(f.payload))
    IN  [i \in 1..Len(good) |-> stored_tick(good[i].payload)]

\* the last n entries of a sequence
LastEntries(q, n) == IF Len(q) > n THEN SubSeq(q, Len(q) - n + 1, Len(q)) ELSE q

\* C39: in the simple subscriber the history of each symbol has at most
\* max_history entries, they are the most recent ticks of the symbol that were
\* parsed, in arrival order, and get_latest_tick is the last of them (None
\* while the symbol has none)
C39_HistoryBounded ==
    \A symbol \in Symbols :
        /\ Len(get_tick_history(symbol)) <= max_history
        /\ get_tick_history(symbol) = LastEntries(ParsedTicksOf(symbol), max_history)
        /\ get_latest_tick(symbol) =
               IF get_tick_history(symbol) = << >>
               THEN None
               ELSE Some(get_tick_history(symbol)[Len(get_tick_history(symbol))])

\* C39 witness: EURUSD has had more parsed ticks than max_history, the oldest
\* has left the history, and frames that did not parse came in between
C39_Witness ==
    /\ Len(ParsedTicksOf(EURUSD)) = max_history + 1
    /\ Len(sub_log) = max_history + 2
    /\ Len(get_tick_history(EURUSD)) = max_history
    /\ ParsedTicksOf(EURUSD)[1].bid # ParsedTicksOf(EURUSD)[2].bid
    /\ get_tick_history(EURUSD)[1] = ParsedTicksOf(EURUSD)[2]

=============================================================================
